---- MODULE Spec2Model ----
(***************************************************************************)
(* Trading core of the Polymarket position manager: the market stream      *)
(* client (core/ws_client.py), the trigger engine that runs as its tick    *)
(* callback (start_price_monitor.check_alerts), the alert store            *)
(* (core/alerts.py) and the credential vault / session manager             *)
(* (core/user_manager.py).                                                 *)
(*                                                                         *)
(* Prices are integers in units of 0.005 (half a cent), so that 0.01 is    *)
(* Cent, 1.0 is One, and the mid price of two whole-cent quotes is exact.  *)
(* Times are integers in seconds.                                          *)
(***************************************************************************)
EXTENDS Integers, Sequences, FiniteSets, TLC

\* ------------------------------------------------------------------------
\* Normal order of record fields
\* ------------------------------------------------------------------------

\* TLC keeps the fields of a record in the order in which the names first
\* appear in the module, and brings a record into that order in place when it
\* first compares or fingerprints it. Each field name used below is listed
\* here with its rank, in the order in which the record constructors write
\* them, so that every record is in normal order as built and no worker
\* rearranges a value that another worker is reading.
NormalOrder ==
    [some |-> 1, v |-> 2, pw |-> 3, c |-> 4, k |-> 5, n |-> 6, mac |-> 7,
     b64 |-> 8, sessions |-> 9, alert |-> 10, kind |-> 11, balance |-> 12,
     positions |-> 13, saved_balance |-> 14, saved_positions |-> 15,
     ops |-> 16, phase |-> 17, op |-> 18, type |-> 19, assets_ids |-> 20,
     origin |-> 21, subs |-> 22, was |-> 23, slept |-> 24, ids |-> 25,
     cache |-> 26, hist |-> 27, ncb |-> 28, npos |-> 29, msgs |-> 30,
     db |-> 31, limit |-> 32, executed |-> 33, ctime |-> 34, marks |-> 35,
     sells |-> 36, notes |-> 37, sess |-> 38, d |-> 39, id |-> 40,
     user_id |-> 41, encrypted_key |-> 42, secret |-> 43, pc |-> 44,
     row |-> 45, telegram_id |-> 46, funder_address |-> 47, live |-> 48,
     via |-> 49, user |-> 50, token_id |-> 51, found |-> 52, session |-> 53,
     alert_type |-> 54, trigger_price |-> 55, side |-> 56, auto_trade |-> 57,
     triggered |-> 58, ok |-> 59, msg |-> 60, ticks |-> 61, encrypted |-> 62,
     blob |-> 63, had_live |-> 64, had |-> 65, idle |-> 66, mode |-> 67,
     entries |-> 68, asset_id |-> 69, price |-> 70, market |-> 71,
     last_trade_price |-> 72, mid |-> 73, event_type |-> 74,
     price_changes |-> 75, bids |-> 76, asks |-> 77, p |-> 78,
     private_key |-> 79, password |-> 80, corrupted |-> 81,
     right_password |-> 82, client_ok |-> 83, salt |-> 84, text |-> 85,
     returned |-> 86, value |-> 87, outcomes |-> 88, success |-> 89,
     order_id |-> 90, filled_size |-> 91, method |-> 92, guarded |-> 93,
     order_type |-> 94, amount |-> 95, st |-> 96, out |-> 97, request |-> 98,
     env |-> 99, amount_usd |-> 100, slippage |-> 101, shares |-> 102,
     percent |-> 103, key |-> 104, create |-> 105, post |-> 106,
     orderID |-> 107, size_matched |-> 108, avgPrice |-> 109,
     errorMsg |-> 110, sizeMatched |-> 111, averagePrice |-> 112,
     immediate |-> 113, quote |-> 114, gtc |-> 115, held |-> 116,
     relay |-> 117, o |-> 118, whole |-> 119, frac |-> 120, size |-> 121,
     avg_price |-> 122, current_price |-> 123, best_bid |-> 124,
     best_ask |-> 125, spread |-> 126, timestamp |-> 127, last_update |-> 128,
     count |-> 129, expired |-> 130, fetched |-> 131, before |-> 132,
     was_connected |-> 133, tracked |-> 134, client |-> 135,
     clob_client |-> 136, last_activity |-> 137, session_start |-> 138,
     acct |-> 139, quoted |-> 140, new_size |-> 141, quotes |-> 142,
     price_arg |-> 143, stored |-> 144, ev |-> 145, tick |-> 146,
     accepted |-> 147, list |-> 148, callback |-> 149, snap |-> 150,
     cached |-> 151, raised |-> 152, error |-> 153, invoked |-> 154,
     refreshed |-> 155, counter |-> 156, resp |-> 157, calls |-> 158,
     last_error |-> 159, made |-> 160, result |-> 161, finished |-> 162,
     i |-> 163, is_paper |-> 164, has_clob |-> 165]

\* ------------------------------------------------------------------------
\* Units and program constants
\* ------------------------------------------------------------------------

\* 0.01 in price units (ws_client.py: max(0, price - 0.01))
Cent == 2

\* 1.0 in price units (ws_client.py: price > 1.0)
One == 100 * Cent

\* deque(maxlen=120)
HistoryMaxLen == 120

\* self._max_reconnect_delay = 30
MaxReconnectDelay == 30

\* self._reconnect_delay = 1
InitialReconnectDelay == 1

\* _ALERT_CACHE_TTL = 5
ALERT_CACHE_TTL == 5

\* Config.SESSION_TIMEOUT is not set in config.py, so is_expired uses 1800
SESSION_TIMEOUT == 1800

\* len(password) < 6
MinPasswordLen == 6

\* len(key_clean) != 64
KeyHexLen == 64

\* secrets.token_bytes(16), packed[:16]
SaltLen == 16

\* secrets.token_bytes(12), packed[16:28]
NonceLen == 12

\* ------------------------------------------------------------------------
\* Bounds of the model
\* ------------------------------------------------------------------------

\* inbound messages handled in one behaviour
MaxMsgs == 2

\* entries in one batched message (snapshot list, price_change batch)
MaxBatch == 2

\* wire messages recorded per connection
MaxWire == 2

\* clock advances in one behaviour
MaxAdvances == 1

\* alerts ever created (AUTOINCREMENT ids 1..MaxAlerts)
MaxAlerts == 2

\* cap on self._consecutive_errors
MaxErrors == 3

\* operations on the simulated account in one behaviour
MaxPaperOps == 3

\* ------------------------------------------------------------------------
\* Generic helpers
\* ------------------------------------------------------------------------

Max2(a, b) == IF a >= b THEN a ELSE b

Min2(a, b) == IF a <= b THEN a ELSE b

SetMax(S) == CHOOSE x \in S : \A y \in S : y <= x

SetMin(S) == CHOOSE x \in S : \A y \in S : x <= y

\* dict.get(k, default)
Get(d, k, default) == IF k \in DOMAIN d THEN d[k] ELSE default

\* A JSON scalar in a numeric field is <<n>> when float() accepts it and
\* <<>> when float() raises (a non-numeric string, null, a nested object).
Num(n) == <<n>>

NotANumber == <<>>

FloatOk(v) == Len(v) = 1

Float(v) == v[1]

NoSnap == [token_id |-> "", price |-> 0, best_bid |-> 0, best_ask |-> 0,
           spread |-> 0, timestamp |-> 0]

EmptyMap == [x \in {} |-> 0]

\* ------------------------------------------------------------------------
\* State
\* ------------------------------------------------------------------------

VARIABLES
    \* PolymarketWebSocket
    running,            \* self._running
    connected,          \* self._connected
    ws,                 \* self._ws: 0 is None, 1 an open socket
    subscribed,         \* self._subscribed_tokens
    price_cache,        \* self._price_cache: token -> PriceSnapshot
    price_history,      \* self._price_history: token -> deque(maxlen=120)
    reconnect_delay,    \* self._reconnect_delay
    msg_count,          \* self._msg_count
    pc,                 \* position of the connect() coroutine
    \* the other end of the socket and the registered callbacks
    wire,               \* frames passed to ws.send on the current connection
    cb_calls,           \* invocations of the general tick callbacks
    pos_calls,          \* invocations of the position-relevant callbacks
    \* wall clock
    now,                \* time.time()
    advances,           \* number of clock advances so far
    \* AlertManager storage and the closure state of start_price_monitor
    alerts_db,          \* table alerts: id -> row
    next_alert_id,      \* AUTOINCREMENT sequence
    executed_alerts,    \* _executed_alerts
    cached_alerts,      \* _cached_alerts
    alert_cache_time,   \* _alert_cache_time
    mark_calls,         \* alert id -> number of mark_triggered calls
    sell_calls,         \* instant_sell calls issued by check_alerts
    notices,            \* messages handed to bot.send_message
    \* UserManager
    users_db,           \* table users: telegram_id -> row
    sessions,           \* self._sessions: telegram_id -> UserSession
    unlock_task,        \* telegram_id -> state of a suspended unlock_session
    truth,              \* telegram_id -> what the stored blob was made from
    delete_task,        \* telegram_ids with a delete_user suspended before its DELETE
    \* PolymarketClient and PositionManager
    consecutive_errors, \* self._consecutive_errors
    positions,          \* PositionManager._positions: token -> LivePosition
    tracking,           \* PositionManager._tracking
    ticked,             \* token -> time of the last stream tick applied to its position
    trade_task,         \* telegram_id -> a buy of that user's client suspended at an await
    paper,              \* the simulated account: _paper_balance, _paper_positions, the saved copies
    \* PolymarketWebSocket: the registered callbacks and the dispatch of one tick
    price_callbacks,    \* self._price_callbacks, in registration order
    position_callbacks, \* self._position_callbacks, in registration order
    inbox,              \* _apply_price calls the read loop has still to make, in order received
    dispatching,        \* position of _apply_price: phase, snapshot, index of the next callback
    events,             \* what the read loop did so far: ticks taken and callbacks invoked
    last                \* the last completed operation and its result

stream_vars == <<running, connected, ws, subscribed, price_cache, price_history,
                 reconnect_delay, msg_count, pc, wire, cb_calls, pos_calls>>

clock_vars == <<now, advances>>

alert_vars == <<alerts_db, next_alert_id, executed_alerts, cached_alerts,
                alert_cache_time, mark_calls, sell_calls, notices>>

user_vars == <<users_db, sessions, unlock_task, truth>>

handle_vars == <<trade_task>>

tracker_vars == <<tracking, ticked>>

paper_vars == <<paper>>

dispatch_vars == <<price_callbacks, position_callbacks, inbox, dispatching, events>>

rest_vars == <<delete_task, consecutive_errors, positions, handle_vars, tracker_vars, paper_vars,
              dispatch_vars>>

vars == <<stream_vars, clock_vars, alert_vars, user_vars, rest_vars, last>>

\* ------------------------------------------------------------------------
\* Strings: a str is a sequence of one-character strings
\* ------------------------------------------------------------------------

Str(c, n) == [i \in 1..n |-> c]

RECURSIVE LStrip(_)
LStrip(s) == IF s # <<>> /\ Head(s) = " " THEN LStrip(Tail(s)) ELSE s

RECURSIVE RStrip(_)
RStrip(s) == IF s # <<>> /\ s[Len(s)] = " " THEN RStrip(SubSeq(s, 1, Len(s) - 1)) ELSE s

\* str.strip()
Strip(s) == RStrip(LStrip(s))

\* s.startswith('0x')
StartsWith0x(s) == Len(s) >= 2 /\ s[1] = "0" /\ s[2] = "x"

\* ------------------------------------------------------------------------
\* Credential vault (encrypt_private_key / decrypt_private_key)
\*
\* PBKDF2 and AES-GCM are modelled symbolically: a derived key is the pair
\* it was derived from (two different (password, salt) pairs never share a
\* key), an encrypted byte is the plaintext byte under the keystream, and
\* the tag names the key, the nonce and the body it authenticates.
\* Decryption checks the tag first, as the library does, and raises on any
\* mismatch.
\* ------------------------------------------------------------------------

\* the Optional[str] returned by decrypt_private_key
None == [some |-> FALSE]

Some(v) == [some |-> TRUE, v |-> v]

\* _derive_key
DeriveKey(password, salt) == [pw |-> password, salt |-> salt]

GcmBody(plaintext) == [i \in 1..Len(plaintext) |-> [c |-> plaintext[i]]]

GcmTag(key, nonce, body) == [k |-> key, n |-> nonce, mac |-> body]

\* AESGCM(key).encrypt(nonce, plaintext, None): body followed by the tag
AesGcmEncrypt(key, nonce, plaintext) ==
    Append(GcmBody(plaintext), GcmTag(key, nonce, GcmBody(plaintext)))

\* a decryption that skips the authentication of the tag
AesGcmDecryptOkUnauthenticated(key, nonce, ciphertext) == Len(ciphertext) >= 1

\* AESGCM.decrypt raises InvalidTag unless the tag authenticates the body
\* under this key and nonce
AesGcmDecryptOk(key, nonce, ciphertext) ==
    /\ Len(ciphertext) >= 1
    /\ ciphertext[Len(ciphertext)] =
           GcmTag(key, nonce, SubSeq(ciphertext, 1, Len(ciphertext) - 1))

AesGcmDecrypt(key, nonce, ciphertext) ==
    [i \in 1..(Len(ciphertext) - 1) |-> ciphertext[i].c]

B64Encode(bytes) == [b64 |-> bytes]

\* base64.b64decode raises on a string that is not base64
B64DecodeOk(text) == "b64" \in DOMAIN text

B64Decode(text) == text.b64

\* python slice packed[a:b] (0-based, end exclusive, clipped to the length)
Slice(s, a, b) == SubSeq(s, a + 1, Min2(b, Len(s)))

EncryptPrivateKey(private_key, password, salt, nonce) ==
    B64Encode(salt \o nonce \o AesGcmEncrypt(DeriveKey(password, salt), nonce, private_key))

DecryptPrivateKey(encrypted, password) ==
    IF ~B64DecodeOk(encrypted) THEN None
    ELSE LET packed == B64Decode(encrypted)
             salt == Slice(packed, 0, SaltLen)
             nonce == Slice(packed, SaltLen, SaltLen + NonceLen)
             ciphertext == Slice(packed, SaltLen + NonceLen, Len(packed))
             key == DeriveKey(password, salt)
         IN  IF AesGcmDecryptOk(key, nonce, ciphertext)
             THEN Some(AesGcmDecrypt(key, nonce, ciphertext))
             ELSE None

\* ------------------------------------------------------------------------
\* Session manager (UserSession, UserManager.get_session / lock_session)
\* ------------------------------------------------------------------------

\* a session that never expires
IsExpiredNever(session, t) == FALSE

\* UserSession.is_expired at time t
IsExpired(session, t) == (t - session.last_activity) > SESSION_TIMEOUT

\* UserSession.touch
Touch(session, t) == [session EXCEPT !.last_activity = t]

\* UserManager.lock_session: the handle is cleared and the entry deleted
LockSession(ss, u) == [x \in (DOMAIN ss) \ {u} |-> ss[x]]

\* UserManager.get_session at time t: the session map afterwards and the
\* session returned (found = FALSE for None)
GetSession(ss, u, t) ==
    IF u \notin DOMAIN ss
    THEN [sessions |-> ss, found |-> FALSE]
    ELSE IF IsExpired(ss[u], t)
         THEN [sessions |-> LockSession(ss, u), found |-> FALSE]
         ELSE [sessions |-> [ss EXCEPT ![u] = Touch(ss[u], t)],
               found |-> TRUE, session |-> Touch(ss[u], t)]

\* polymarket_client.get_user_client: a per-user client exists only for a
\* live session that still holds its signing handle
GetUserClient(ss, u, t) ==
    LET r == GetSession(ss, u, t)
    IN  IF r.found /\ r.session.clob_client.live
        THEN [sessions |-> r.sessions, found |-> TRUE, clob_client |-> r.session.clob_client]
        ELSE [sessions |-> r.sessions, found |-> FALSE]

\* ------------------------------------------------------------------------
\* Alert store (AlertManager)
\* ------------------------------------------------------------------------

AlertTypes == {"price_alert", "stop_loss", "take_profit"}

\* SELECT ... FROM alerts WHERE triggered = 0, in rowid order
RECURSIVE ActiveRowsFrom(_, _, _)
ActiveRowsFrom(db, id, limit) ==
    IF id >= limit THEN <<>>
    ELSE (IF id \in DOMAIN db /\ ~db[id].triggered THEN <<db[id]>> ELSE <<>>)
             \o ActiveRowsFrom(db, id + 1, limit)

\* AlertManager.get_alerts(active_only=True)
GetAlerts(db, limit) == ActiveRowsFrom(db, 1, limit)

\* AlertManager.mark_triggered: UPDATE alerts SET triggered = 1 WHERE id = ?
MarkTriggered(db, id) ==
    IF id \in DOMAIN db THEN [db EXCEPT ![id].triggered = TRUE] ELSE db

\* int(alert.user_id): the decimal strings the handlers store
UserIdOk(text) == text \in {"1", "2"}

ParseUserId(text) == IF text = "1" THEN 1 ELSE 2

\* ------------------------------------------------------------------------
\* Trigger engine (start_price_monitor.check_alerts)
\*
\* The state a tick works on is a record s: cache, hist, ncb, npos (stream
\* client), db, limit, executed, cached, ctime, marks, sells, notes (alert
\* engine) and sess (session map).
\* ------------------------------------------------------------------------

\* the trigger test of one alert against one tick
Triggers(alert, snap) ==
    \/ alert.side = "above" /\ snap.price >= alert.trigger_price
    \/ alert.side = "below" /\ snap.price <= alert.trigger_price

\* an auto-sell that says nothing when the user has no session
AutoSellSilent(s, alert, snap, t, sellOk) ==
    IF ~UserIdOk(alert.user_id)
    THEN [s EXCEPT !.notes = Append(@, [alert |-> alert.id, kind |-> "error"])]
    ELSE LET uc == GetUserClient(s.sess, ParseUserId(alert.user_id), t)
         IN  [s EXCEPT !.sess = uc.sessions]

\* the auto-trade branch for one triggered alert
AutoSell(s, alert, snap, t, sellOk) ==
    IF ~UserIdOk(alert.user_id)
    THEN [s EXCEPT !.notes = Append(@, [alert |-> alert.id, kind |-> "error"])]
    ELSE LET uc == GetUserClient(s.sess, ParseUserId(alert.user_id), t)
         IN  IF uc.found
             THEN [s EXCEPT
                     !.sess = uc.sessions,
                     !.sells = Append(@, [alert |-> alert.id,
                                          user |-> ParseUserId(alert.user_id),
                                          token_id |-> alert.token_id,
                                          alert_type |-> alert.alert_type,
                                          auto_trade |-> alert.auto_trade,
                                          percent |-> 100,
                                          key |-> uc.clob_client.key,
                                          tick |-> s.ncb]),
                     !.notes = Append(@, [alert |-> alert.id,
                                          kind |-> IF sellOk THEN "executed" ELSE "sell_failed"])]
             ELSE [s EXCEPT
                     !.sess = uc.sessions,
                     !.notes = Append(@, [alert |-> alert.id, kind |-> "no_session"])]

\* a trigger that sells whatever the alert's type and flag
OnTriggeredAlwaysSells(s, alert, snap, t, sellOk) ==
    AutoSell([s EXCEPT !.db = MarkTriggered(@, alert.id),
                       !.marks = [@ EXCEPT ![alert.id] = @ + 1],
                       !.executed = @ \cup {alert.id}], alert, snap, t, sellOk)

\* what check_alerts does once an alert has matched the tick
OnTriggered(s, alert, snap, t, sellOk) ==
    LET marked == [s EXCEPT !.db = MarkTriggered(@, alert.id),
                            !.marks = [@ EXCEPT ![alert.id] = @ + 1],
                            !.executed = @ \cup {alert.id}]
    IN  IF alert.auto_trade /\ alert.alert_type \in {"stop_loss", "take_profit"}
        THEN AutoSell(marked, alert, snap, t, sellOk)
        ELSE [marked EXCEPT !.notes = Append(@, [alert |-> alert.id, kind |-> "alert"])]

\* the loop body without the _executed_alerts test
CheckOneNoDedup(s, alert, snap, t, sellOk) ==
    IF alert.token_id # snap.token_id THEN s
    ELSE IF Triggers(alert, snap) THEN OnTriggered(s, alert, snap, t, sellOk)
    ELSE s

\* the body of "for alert in _cached_alerts" for one alert
CheckOne(s, alert, snap, t, sellOk) ==
    IF alert.token_id # snap.token_id THEN s
    ELSE IF alert.id \in s.executed THEN s
    ELSE IF Triggers(alert, snap) THEN OnTriggered(s, alert, snap, t, sellOk)
    ELSE s

RECURSIVE CheckLoop(_, _, _, _, _)
CheckLoop(s, alerts, snap, t, sellOk) ==
    IF alerts = <<>> THEN s
    ELSE CheckLoop(CheckOne(s, Head(alerts), snap, t, sellOk), Tail(alerts), snap, t, sellOk)

\* the read cache: refreshed when older than the TTL
RefreshAlertCache(s, t) ==
    IF t - s.ctime > ALERT_CACHE_TTL
    THEN [s EXCEPT !.cached = GetAlerts(s.db, s.limit), !.ctime = t]
    ELSE s

\* check_alerts without its test of the tick's price
CheckAlertsAnyPrice(s, snap, t, sellOk) ==
    LET r == RefreshAlertCache(s, t)
    IN  CheckLoop(r, r.cached, snap, t, sellOk)

\* check_alerts(snap) at time t; sellOk is the outcome of instant_sell
CheckAlerts(s, snap, t, sellOk) ==
    IF snap.price < Cent \/ snap.price > 99 * Cent THEN s
    ELSE LET r == RefreshAlertCache(s, t)
         IN  CheckLoop(r, r.cached, snap, t, sellOk)

\* ------------------------------------------------------------------------
\* Market stream client: tick application (_apply_price)
\* ------------------------------------------------------------------------

\* deque(maxlen=HistoryMaxLen).append
DequeAppend(q, x) ==
    IF Len(q) >= HistoryMaxLen THEN Append(Tail(q), x) ELSE Append(q, x)

\* the snapshot _apply_price builds from an in-range price
MakeSnapshot(token_id, price, best_bid, best_ask, t) ==
    LET ask == IF best_ask <= 0 THEN price ELSE best_ask
        bid == IF best_bid <= 0 THEN Max2(0, price - Cent) ELSE best_bid
    IN  [token_id |-> token_id, price |-> price, best_bid |-> bid, best_ask |-> ask,
         spread |-> IF ask > bid THEN ask - bid ELSE 0, timestamp |-> t]

\* the sanity bound with the upper limit forgotten
PriceInRangeNoUpperLimit(price) == ~(price <= 0)

\* the sanity bound of _apply_price
PriceInRange(price) == ~(price <= 0 \/ price > One)

\* self._price_history after a snapshot for token_id
HistoryAfter(hist, subs, snap) ==
    IF snap.token_id \in DOMAIN hist
    THEN [hist EXCEPT ![snap.token_id] = DequeAppend(@, snap)]
    ELSE IF snap.token_id \in subs
         THEN (snap.token_id :> <<snap>>) @@ hist
         ELSE hist

\* _apply_price: cache, history, then the general callbacks (check_alerts),
\* then the position-relevant callbacks for subscribed tokens
ApplyPrice(s, subs, token_id, price, best_bid, best_ask, t, sellOk) ==
    IF ~PriceInRange(price) THEN s
    ELSE LET snap == MakeSnapshot(token_id, price, best_bid, best_ask, t)
             stored == [s EXCEPT !.cache = (token_id :> snap) @@ @,
                                 !.hist = HistoryAfter(@, subs, snap),
                                 !.ncb = @ + 1,
                                 !.ticks = Append(@, snap)]
             alerted == CheckAlerts(stored, snap, t, sellOk)
         IN  IF token_id \in subs
             THEN [alerted EXCEPT !.npos = @ + 1]
             ELSE alerted

\* ------------------------------------------------------------------------
\* Market stream client: message parsing (_handle_message)
\*
\* A message is [kind |-> "invalid"] (json.loads raises), [kind |-> "list",
\* entries |-> <<...>>] or [kind |-> "dict", d |-> a record of the fields
\* present].  A handler that raises leaves s.raised set and the rest of the
\* message is skipped by the enclosing try/except.
\* ------------------------------------------------------------------------

Raise(s) == [s EXCEPT !.raised = TRUE]

\* [float(b.get('price', b.get('p', 0))) for b in levels] can be evaluated
LevelsOk(levels) ==
    \A i \in 1..Len(levels) : FloatOk(Get(levels[i], "price", Get(levels[i], "p", Num(0))))

\* the prices of the book levels that pass 0 < p <= 1.0
LevelPrices(levels) ==
    {p \in {Float(Get(levels[i], "price", Get(levels[i], "p", Num(0)))) : i \in 1..Len(levels)} :
        0 < p /\ p <= One}

BestBidOf(bids) ==
    IF bids # <<>> /\ LevelPrices(bids) # {} THEN SetMax(LevelPrices(bids)) ELSE 0

BestAskOf(asks) ==
    IF asks # <<>> /\ LevelPrices(asks) # {} THEN SetMin(LevelPrices(asks)) ELSE 0

\* Format 1, one entry of the initial snapshot
SnapshotEntry(s, subs, entry, t, sellOk) ==
    IF "notdict" \in DOMAIN entry THEN Raise(s)
    ELSE IF Get(entry, "asset_id", "") = "" THEN s
    ELSE IF ~LevelsOk(Get(entry, "bids", <<>>)) THEN Raise(s)
    ELSE IF ~LevelsOk(Get(entry, "asks", <<>>)) THEN Raise(s)
    ELSE LET best_bid == BestBidOf(Get(entry, "bids", <<>>))
             best_ask == BestAskOf(Get(entry, "asks", <<>>))
             price == IF best_bid > 0 /\ best_ask > 0
                      THEN (best_bid + best_ask) \div 2
                      ELSE IF best_ask # 0 THEN best_ask ELSE best_bid
         IN  IF best_bid > 0 \/ best_ask > 0
             THEN ApplyPrice(s, subs, entry.asset_id, price, best_bid, best_ask, t, sellOk)
             ELSE s

\* Format 2, one entry of a price_change batch
PriceChangeEntry(s, subs, ch, t, sellOk) ==
    IF "notdict" \in DOMAIN ch THEN Raise(s)
    ELSE IF Get(ch, "asset_id", "") = "" THEN s
    ELSE IF ~FloatOk(Get(ch, "best_bid", Num(0))) THEN Raise(s)
    ELSE IF ~FloatOk(Get(ch, "best_ask", Num(0))) THEN Raise(s)
    ELSE IF ~FloatOk(Get(ch, "price", Num(0))) THEN Raise(s)
    ELSE LET best_bid == Float(Get(ch, "best_bid", Num(0)))
             best_ask == Float(Get(ch, "best_ask", Num(0)))
             given == Float(Get(ch, "price", Num(0)))
             price == IF given = 0 /\ best_ask > 0 THEN best_ask
                      ELSE IF given = 0 /\ best_bid > 0 /\ best_ask > 0
                           THEN (best_bid + best_ask) \div 2
                           ELSE given
         IN  IF price > 0
             THEN ApplyPrice(s, subs, ch.asset_id, price, best_bid, best_ask, t, sellOk)
             ELSE s

\* the for-loops of formats 1 and 2: entries in order, stopping at a raise
RECURSIVE EntryLoop(_, _, _, _, _, _)
EntryLoop(s, subs, entries, shape, t, sellOk) ==
    IF entries = <<>> \/ s.raised THEN s
    ELSE EntryLoop(IF shape = "snapshot"
                   THEN SnapshotEntry(s, subs, Head(entries), t, sellOk)
                   ELSE PriceChangeEntry(s, subs, Head(entries), t, sellOk),
                   subs, Tail(entries), shape, t, sellOk)

\* Format 3, an individual book/trade update
BookUpdate(s, subs, data, t, sellOk) ==
    LET token_id == Get(data, "asset_id", Get(data, "market", ""))
        rawPrice == Get(data, "price", Get(data, "last_trade_price", Get(data, "mid", Num(0))))
    IN  IF token_id = "" THEN s
        ELSE IF ~FloatOk(rawPrice) THEN Raise(s)
        ELSE IF ~FloatOk(Get(data, "best_bid", Num(0))) THEN Raise(s)
        ELSE IF ~FloatOk(Get(data, "best_ask", Num(0))) THEN Raise(s)
        ELSE LET given == Float(rawPrice)
                 best_bid == Float(Get(data, "best_bid", Num(0)))
                 best_ask == Float(Get(data, "best_ask", Num(0)))
                 price == IF given <= 0 /\ best_ask > 0 THEN best_ask
                          ELSE IF given <= 0 /\ best_bid > 0 /\ best_ask > 0
                               THEN (best_bid + best_ask) \div 2
                               ELSE given
             IN  IF price > 0
                 THEN ApplyPrice(s, subs, token_id, price, best_bid, best_ask, t, sellOk)
                 ELSE s

\* Format 4, the legacy price update
LegacyUpdate(s, subs, data, t, sellOk) ==
    LET token_id == Get(data, "asset_id", Get(data, "token_id", ""))
        rawPrice == Get(data, "price", Get(data, "mid", Num(0)))
    IN  IF ~FloatOk(rawPrice) THEN Raise(s)
        ELSE IF token_id # "" /\ Float(rawPrice) > 0
             THEN ApplyPrice(s, subs, token_id, Float(rawPrice), 0, 0, t, sellOk)
             ELSE s

\* _handle_message after json.loads succeeded on a dict
HandleDict(s, subs, data, t, sellOk) ==
    IF Get(data, "event_type", "") = "price_change"
    THEN EntryLoop(s, subs, Get(data, "price_changes", <<>>), "price_change", t, sellOk)
    ELSE IF Get(data, "type", Get(data, "event_type", ""))
                \in {"last_trade_price", "price_change", "book", "tick_size_change"}
         THEN BookUpdate(s, subs, data, t, sellOk)
         ELSE IF Get(data, "type", "") = "price_update"
                    \/ ("price" \in DOMAIN data /\ "asset_id" \in DOMAIN data)
              THEN LegacyUpdate(s, subs, data, t, sellOk)
              ELSE s

\* _handle_message(raw)
ParseMessage(s, subs, msg, t, sellOk) ==
    IF msg.kind = "invalid" THEN s
    ELSE LET counted == [s EXCEPT !.msgs = @ + 1]
         IN  IF msg.kind = "list"
             THEN EntryLoop(counted, subs, msg.entries, "snapshot", t, sellOk)
             ELSE HandleDict(counted, subs, msg.d, t, sellOk)

\* the simulated account counts money in 1/10000 dollar (one hundredth of a
\* share at one cent), shares in hundredths and prices in cents
PaperUnit == 10000

\* self._paper_balance = 1000.0
PAPER_START_BALANCE == 1000

\* ------------------------------------------------------------------------
\* Initial state: the objects as constructed, empty stores
\* ------------------------------------------------------------------------

Init ==
    /\ running = FALSE
    /\ connected = FALSE
    /\ ws = 0
    /\ subscribed = {}
    /\ price_cache = EmptyMap
    /\ price_history = EmptyMap
    /\ reconnect_delay = InitialReconnectDelay
    /\ msg_count = 0
    /\ pc = "idle"
    /\ wire = <<>>
    /\ cb_calls = 0
    /\ pos_calls = 0
    /\ now = ALERT_CACHE_TTL + 1
    /\ advances = 0
    /\ alerts_db = EmptyMap
    /\ next_alert_id = 1
    /\ executed_alerts = {}
    /\ cached_alerts = <<>>
    /\ alert_cache_time = 0
    /\ mark_calls = EmptyMap
    /\ sell_calls = <<>>
    /\ notices = <<>>
    /\ users_db = EmptyMap
    /\ sessions = EmptyMap
    /\ unlock_task = EmptyMap
    /\ delete_task = {}
    /\ consecutive_errors = 0
    /\ positions = EmptyMap
    /\ truth = EmptyMap
    /\ tracking = FALSE
    /\ ticked = EmptyMap
    /\ trade_task = EmptyMap
    /\ paper = [balance |-> PAPER_START_BALANCE * PaperUnit, positions |-> EmptyMap,
                saved_balance |-> <<>>, saved_positions |-> EmptyMap, ops |-> 0]
    /\ price_callbacks = <<>>
    /\ position_callbacks = <<>>
    /\ inbox = <<>>
    /\ dispatching = [phase |-> "idle"]
    /\ events = <<>>
    /\ last = [op |-> "init"]

\* ------------------------------------------------------------------------
\* Market stream client: connection loop (connect / disconnect)
\* ------------------------------------------------------------------------

\* self.is_connected
IsConnected == connected /\ ws # 0

\* the frame _send_subscribe passes to ws.send
SubscribeFrame(ids, origin) == [type |-> "market", assets_ids |-> ids, origin |-> origin]

\* connect() with the resubscription left out
ConnectFramesNone(subs) == <<>>

\* the frames connect() sends right after the socket opened
ConnectFrames(subs) == IF subs # {} THEN <<SubscribeFrame(subs, "connect")>> ELSE <<>>

\* a backoff that grows by one instead of doubling
NextDelayLinear(delay) == Min2(delay + 1, MaxReconnectDelay)

\* the delay after one more failed or closed connection
NextDelay(delay) == Min2(delay * 2, MaxReconnectDelay)

\* connect() is called: self._running = True and the loop is entered
StartConnect ==
    /\ pc = "idle"
    /\ running' = TRUE
    /\ pc' = "connecting"
    /\ last' = [op |-> "start"]
    /\ UNCHANGED <<connected, ws, subscribed, price_cache, price_history,
                   reconnect_delay, msg_count, wire, cb_calls, pos_calls>>
    /\ UNCHANGED <<rest_vars, clock_vars, alert_vars, user_vars>>

\* websockets.connect succeeded: handle stored, delay reset, subscriptions resent
ConnectOk ==
    /\ pc = "connecting"
    /\ ws' = 1
    /\ connected' = TRUE
    /\ reconnect_delay' = InitialReconnectDelay
    /\ wire' = ConnectFrames(subscribed)
    /\ pc' = "reading"
    /\ last' = [op |-> "connect_ok", subs |-> subscribed]
    /\ UNCHANGED <<running, subscribed, price_cache, price_history, msg_count,
                   cb_calls, pos_calls>>
    /\ UNCHANGED <<rest_vars, clock_vars, alert_vars, user_vars>>

\* the attempt raised, or the open connection closed / the read loop broke
ConnectionLost ==
    /\ pc \in {"connecting", "reading"}
    /\ ws' = 0
    /\ connected' = FALSE
    /\ pc' = IF running THEN "backoff" ELSE "done"
    /\ last' = [op |-> "lost", was |-> pc]
    /\ UNCHANGED <<running, subscribed, price_cache, price_history, reconnect_delay,
                   msg_count, wire, cb_calls, pos_calls>>
    /\ UNCHANGED <<rest_vars, clock_vars, alert_vars, user_vars>>

\* asyncio.sleep(self._reconnect_delay) returned: the delay is doubled
BackoffDone ==
    /\ pc = "backoff"
    /\ reconnect_delay' = NextDelay(reconnect_delay)
    /\ pc' = IF running THEN "connecting" ELSE "done"
    /\ last' = [op |-> "backoff_done", slept |-> reconnect_delay]
    /\ UNCHANGED <<running, connected, ws, subscribed, price_cache, price_history,
                   msg_count, wire, cb_calls, pos_calls>>
    /\ UNCHANGED <<rest_vars, clock_vars, alert_vars, user_vars>>

\* disconnect()
Disconnect ==
    /\ running
    /\ running' = FALSE
    /\ connected' = FALSE
    /\ ws' = 0
    /\ last' = [op |-> "disconnect"]
    /\ UNCHANGED <<subscribed, price_cache, price_history, reconnect_delay,
                   msg_count, pc, wire, cb_calls, pos_calls>>
    /\ UNCHANGED <<rest_vars, clock_vars, alert_vars, user_vars>>

\* ------------------------------------------------------------------------
\* Market stream client: subscriptions
\* ------------------------------------------------------------------------

\* subscribe without the diff against the current set
NewTokensNoDiff(token_ids, subs) == token_ids

\* the ids subscribe(token_ids) treats as new
NewTokens(token_ids, subs) == token_ids \ subs

\* what subscribe passes to ws.send
SubscribeFrames(token_ids, subs, isConnected) ==
    IF isConnected /\ NewTokens(token_ids, subs) # {}
    THEN <<SubscribeFrame(NewTokens(token_ids, subs), "subscribe")>>
    ELSE <<>>

\* subscribe(token_ids)
Subscribe(token_ids) ==
    /\ Len(wire) + Len(SubscribeFrames(token_ids, subscribed, IsConnected)) <= MaxWire
    /\ subscribed' = subscribed \cup token_ids
    /\ price_history' = [t \in (NewTokens(token_ids, subscribed) \ DOMAIN price_history) |-> <<>>]
                            @@ price_history
    /\ wire' = wire \o SubscribeFrames(token_ids, subscribed, IsConnected)
    /\ last' = [op |-> "subscribe", ids |-> token_ids, before |-> subscribed,
                was_connected |-> IsConnected]
    /\ UNCHANGED <<running, connected, ws, price_cache, reconnect_delay, msg_count,
                   pc, cb_calls, pos_calls>>
    /\ UNCHANGED <<rest_vars, clock_vars, alert_vars, user_vars>>

\* unsubscribe(token_ids)
Unsubscribe(token_ids) ==
    /\ subscribed' = subscribed \ token_ids
    /\ last' = [op |-> "unsubscribe", ids |-> token_ids]
    /\ UNCHANGED <<running, connected, ws, price_cache, price_history, reconnect_delay,
                   msg_count, pc, wire, cb_calls, pos_calls>>
    /\ UNCHANGED <<rest_vars, clock_vars, alert_vars, user_vars>>

\* ------------------------------------------------------------------------
\* Market stream client: the read loop handles one inbound message
\* ------------------------------------------------------------------------

\* the state one tick dispatch works on
TickState ==
    [cache |-> price_cache, hist |-> price_history, ncb |-> cb_calls, npos |-> pos_calls,
     msgs |-> msg_count, db |-> alerts_db, limit |-> next_alert_id,
     executed |-> executed_alerts, ctime |-> alert_cache_time, marks |-> mark_calls,
     sells |-> sell_calls, notes |-> notices, sess |-> sessions,
     ticks |-> <<>>, cached |-> cached_alerts, raised |-> FALSE]

\* "async for message in ws": await self._handle_message(message)
HandleMessage(msg, sellOk) ==
    /\ pc = "reading"
    /\ running
    /\ msg_count < MaxMsgs
    /\ \E s \in {ParseMessage(TickState, subscribed, msg, now, sellOk)} :
           /\ price_cache' = s.cache
           /\ price_history' = s.hist
           /\ cb_calls' = s.ncb
           /\ pos_calls' = s.npos
           /\ msg_count' = s.msgs
           /\ alerts_db' = s.db
           /\ executed_alerts' = s.executed
           /\ cached_alerts' = s.cached
           /\ alert_cache_time' = s.ctime
           /\ mark_calls' = s.marks
           /\ sell_calls' = s.sells
           /\ notices' = s.notes
           /\ sessions' = s.sess
           /\ last' = [op |-> "message", msg |-> msg, ticks |-> s.ticks, raised |-> s.raised]
    /\ UNCHANGED <<running, connected, ws, subscribed, reconnect_delay, pc, wire>>
    /\ UNCHANGED <<rest_vars, clock_vars, next_alert_id, users_db, unlock_task, truth>>

\* ------------------------------------------------------------------------
\* Wall clock
\* ------------------------------------------------------------------------

Advance(d) ==
    /\ advances < MaxAdvances
    /\ now' = now + d
    /\ advances' = advances + 1
    /\ last' = [op |-> "advance", d |-> d]
    /\ UNCHANGED <<rest_vars, stream_vars, alert_vars, user_vars>>

\* ------------------------------------------------------------------------
\* Alert store operations
\* ------------------------------------------------------------------------

\* the row add_alert inserts
AlertRow(id, user_id, token_id, alert_type, trigger_price, side, auto_trade) ==
    [id |-> id, user_id |-> user_id, token_id |-> token_id, alert_type |-> alert_type,
     trigger_price |-> trigger_price, side |-> side, auto_trade |-> auto_trade,
     triggered |-> FALSE]

\* AlertManager.add_alert
AddAlert(user_id, token_id, alert_type, trigger_price, side, auto_trade) ==
    /\ next_alert_id <= MaxAlerts
    /\ alerts_db' = (next_alert_id :> AlertRow(next_alert_id, user_id, token_id, alert_type,
                                              trigger_price, side, auto_trade)) @@ alerts_db
    /\ next_alert_id' = next_alert_id + 1
    /\ mark_calls' = (next_alert_id :> 0) @@ mark_calls
    /\ last' = [op |-> "add_alert", id |-> next_alert_id]
    /\ UNCHANGED <<executed_alerts, cached_alerts, alert_cache_time, sell_calls, notices>>
    /\ UNCHANGED <<rest_vars, stream_vars, clock_vars, user_vars>>

\* AlertManager.add_stop_loss
AddStopLoss(user_id, token_id, stop_price) ==
    AddAlert(user_id, token_id, "stop_loss", stop_price, "below", TRUE)

\* AlertManager.add_take_profit
AddTakeProfit(user_id, token_id, target_price) ==
    AddAlert(user_id, token_id, "take_profit", target_price, "above", TRUE)

\* AlertManager.remove_alert
RemoveAlert(id) ==
    /\ id \in DOMAIN alerts_db
    /\ alerts_db' = [x \in (DOMAIN alerts_db) \ {id} |-> alerts_db[x]]
    /\ last' = [op |-> "remove_alert", id |-> id]
    /\ UNCHANGED <<next_alert_id, executed_alerts, cached_alerts, alert_cache_time,
                   mark_calls, sell_calls, notices>>
    /\ UNCHANGED <<rest_vars, stream_vars, clock_vars, user_vars>>

\* ------------------------------------------------------------------------
\* User manager operations (UserManager)
\* ------------------------------------------------------------------------

MsgBadKey == "Invalid private key format. Must be 64 hex characters (with or without 0x prefix)."

MsgShortPassword == "Password too short. Use at least 6 characters."

MsgVerifyFailed == "Encryption verification failed. Please try again."

MsgRegistered == "Wallet connected and encrypted successfully!"

MsgAlreadyActive == "Session already active!"

MsgNoWallet == "No wallet connected. Use /connect first."

MsgWrongPassword == "Wrong password. Try again."

MsgUnlocked == "Session unlocked!"

MsgInitFailed == "Failed to initialize wallet"

\* key_clean of register_user
KeyClean(private_key) ==
    IF StartsWith0x(Strip(private_key))
    THEN SubSeq(Strip(private_key), 3, Len(Strip(private_key)))
    ELSE Strip(private_key)

\* a registration that does not look at the password's length
RegisterOutcomeAnyPassword(private_key, password, salt, nonce) ==
    IF Len(KeyClean(private_key)) # KeyHexLen
    THEN [ok |-> FALSE, msg |-> MsgBadKey, encrypted |-> FALSE]
    ELSE LET blob == EncryptPrivateKey(Strip(private_key), password, salt, nonce)
         IN  IF DecryptPrivateKey(blob, password) # Some(Strip(private_key))
             THEN [ok |-> FALSE, msg |-> MsgVerifyFailed, encrypted |-> TRUE]
             ELSE [ok |-> TRUE, msg |-> MsgRegistered, encrypted |-> TRUE, blob |-> blob]

\* the outcome of register_user up to the storage write: which check
\* rejected the request, or the blob to store
RegisterOutcome(private_key, password, salt, nonce) ==
    IF Len(KeyClean(private_key)) # KeyHexLen
    THEN [ok |-> FALSE, msg |-> MsgBadKey, encrypted |-> FALSE]
    ELSE IF Len(password) < MinPasswordLen
    THEN [ok |-> FALSE, msg |-> MsgShortPassword, encrypted |-> FALSE]
    ELSE LET blob == EncryptPrivateKey(Strip(private_key), password, salt, nonce)
         IN  IF DecryptPrivateKey(blob, password) # Some(Strip(private_key))
             THEN [ok |-> FALSE, msg |-> MsgVerifyFailed, encrypted |-> TRUE]
             ELSE [ok |-> TRUE, msg |-> MsgRegistered, encrypted |-> TRUE, blob |-> blob]

\* register_user: INSERT OR REPLACE of the user's row on success
RegisterUser(u, private_key, password, funder_address, salt, nonce) ==
    /\ \E r \in {RegisterOutcome(private_key, password, salt, nonce)} :
           /\ users_db' = IF r.ok
                          THEN (u :> [encrypted_key |-> r.blob,
                                      funder_address |-> funder_address]) @@ users_db
                          ELSE users_db
           /\ truth' = IF r.ok
                       THEN (u :> [secret |-> Strip(private_key), password |-> password,
                                   corrupted |-> FALSE]) @@ truth
                       ELSE truth
           /\ last' = [op |-> "register", user |-> u, ok |-> r.ok, msg |-> r.msg,
                       encrypted |-> r.encrypted]
    /\ UNCHANGED <<sessions, unlock_task>>
    /\ UNCHANGED <<rest_vars, stream_vars, clock_vars, alert_vars>>

\* unlock_session, up to its first storage access: a live session is
\* refreshed and the call returns; otherwise the call suspends in the SELECT
UnlockBegin(u, password) ==
    /\ u \notin DOMAIN unlock_task
    /\ IF u \in DOMAIN sessions /\ ~IsExpired(sessions[u], now)
       THEN /\ sessions' = [sessions EXCEPT ![u] = Touch(@, now)]
            /\ unlock_task' = unlock_task
            /\ last' = [op |-> "unlock", user |-> u, ok |-> TRUE, msg |-> MsgAlreadyActive,
                        had_live |-> TRUE]
       ELSE /\ sessions' = sessions
            /\ unlock_task' = (u :> [pc |-> "fetch", password |-> password]) @@ unlock_task
            /\ last' = [op |-> "unlock_begin", user |-> u]
    /\ UNCHANGED <<users_db, truth>>
    /\ UNCHANGED <<rest_vars, stream_vars, clock_vars, alert_vars>>

\* unlock_session: the SELECT returns the user's row, or nothing
UnlockFetch(u) ==
    /\ u \in DOMAIN unlock_task
    /\ unlock_task[u].pc = "fetch"
    /\ IF u \in DOMAIN users_db
       THEN /\ unlock_task' = [unlock_task EXCEPT ![u] =
                                  [secret |-> truth[u].secret, pc |-> "decrypt",
                                   row |-> users_db[u],
                                   password |-> @.password,
                                   corrupted |-> truth[u].corrupted,
                                   right_password |-> (@.password = truth[u].password)]]
            /\ last' = [op |-> "unlock_fetch", user |-> u]
       ELSE /\ unlock_task' = [x \in (DOMAIN unlock_task) \ {u} |-> unlock_task[x]]
            /\ last' = [op |-> "unlock", user |-> u, ok |-> FALSE, msg |-> MsgNoWallet,
                        had_live |-> FALSE]
    /\ UNCHANGED <<users_db, sessions, truth>>
    /\ UNCHANGED <<rest_vars, stream_vars, clock_vars, alert_vars>>

\* the UserSession unlock_session stores
NewSession(u, row, private_key, t) ==
    [telegram_id |-> u, funder_address |-> row.funder_address,
     clob_client |-> [live |-> TRUE, key |-> private_key],
     last_activity |-> t, session_start |-> t]

\* unlock_session without its `if not private_key` return
UnlockOutcomeUnchecked(row, password, clientOk) ==
    LET private_key == DecryptPrivateKey(row.encrypted_key, password)
    IN  IF ~clientOk
        THEN [ok |-> FALSE, msg |-> MsgInitFailed]
        ELSE [ok |-> TRUE, msg |-> MsgUnlocked,
              key |-> IF private_key.some THEN private_key.v ELSE <<>>]

\* the result of unlock_session once the row is read; clientOk says whether
\* building the ClobClient and deriving its API credentials succeeded
UnlockOutcome(row, password, clientOk) ==
    LET private_key == DecryptPrivateKey(row.encrypted_key, password)
    IN  IF ~private_key.some \/ private_key.v = <<>>
        THEN [ok |-> FALSE, msg |-> MsgWrongPassword]
        ELSE IF ~clientOk
        THEN [ok |-> FALSE, msg |-> MsgInitFailed]
        ELSE [ok |-> TRUE, msg |-> MsgUnlocked, key |-> private_key.v]

\* unlock_session: decrypt, build the client, store the session
UnlockFinish(u, clientOk) ==
    /\ u \in DOMAIN unlock_task
    /\ unlock_task[u].pc = "decrypt"
    /\ \E task \in {unlock_task[u]} :
       \E r \in {UnlockOutcome(task.row, task.password, clientOk)} :
           /\ sessions' = IF r.ok
                          THEN (u :> NewSession(u, task.row, r.key, now)) @@ sessions
                          ELSE sessions
           /\ last' = [op |-> "unlock", user |-> u, ok |-> r.ok, msg |-> r.msg,
                       had_live |-> FALSE, corrupted |-> task.corrupted,
                       right_password |-> task.right_password, client_ok |-> clientOk]
    /\ unlock_task' = [x \in (DOMAIN unlock_task) \ {u} |-> unlock_task[x]]
    /\ UNCHANGED <<users_db, truth>>
    /\ UNCHANGED <<rest_vars, stream_vars, clock_vars, alert_vars>>

\* the session accessors: get_session, get_clob_client, is_unlocked and
\* polymarket_client.get_user_client all go through get_session
Accessors == {"get_session", "get_clob_client", "is_unlocked", "get_user_client"}

AccessSession(u, via) ==
    /\ via \in Accessors
    /\ \E r \in {IF via = "get_user_client"
                THEN GetUserClient(sessions, u, now)
                ELSE GetSession(sessions, u, now)} :
           /\ sessions' = r.sessions
           /\ last' = [op |-> "access", via |-> via, user |-> u, found |-> r.found,
                       had |-> (u \in DOMAIN sessions),
                       idle |-> IF u \in DOMAIN sessions
                                THEN now - sessions[u].last_activity ELSE 0]
    /\ UNCHANGED <<users_db, unlock_task, truth>>
    /\ UNCHANGED <<rest_vars, stream_vars, clock_vars, alert_vars>>

\* lock_session(u)
LockSessionOp(u) ==
    /\ sessions' = LockSession(sessions, u)
    /\ last' = [op |-> "lock", user |-> u, ok |-> (u \in DOMAIN sessions)]
    /\ UNCHANGED <<users_db, unlock_task, truth>>
    /\ UNCHANGED <<rest_vars, stream_vars, clock_vars, alert_vars>>

\* the stored blob is damaged in storage: its tag is cut off, a salt byte is
\* changed, or the text is no longer base64
CorruptedBlob(blob, mode) ==
    IF mode = "truncate" THEN B64Encode(SubSeq(B64Decode(blob), 1, Len(B64Decode(blob)) - 1))
    ELSE IF mode = "salt" THEN B64Encode([B64Decode(blob) EXCEPT ![1] = 1 - @])
    ELSE [text |-> "not base64"]

CorruptStoredBlob(u, mode) ==
    /\ u \in DOMAIN users_db
    /\ ~truth[u].corrupted
    /\ users_db' = [users_db EXCEPT ![u].encrypted_key = CorruptedBlob(@, mode)]
    /\ truth' = [truth EXCEPT ![u].corrupted = TRUE]
    /\ last' = [op |-> "corrupt", user |-> u, mode |-> mode]
    /\ UNCHANGED <<sessions, unlock_task>>
    /\ UNCHANGED <<rest_vars, stream_vars, clock_vars, alert_vars>>

\* ------------------------------------------------------------------------
\* Inbound messages offered to the read loop
\* ------------------------------------------------------------------------

Dict(d) == [kind |-> "dict", d |-> d]

List(entries) == [kind |-> "list", entries |-> entries]

Invalid == [kind |-> "invalid"]

\* non-empty sequences over S of length at most n
RECURSIVE SeqsUpTo(_, _)
SeqsUpTo(S, n) ==
    IF n = 0 THEN {}
    ELSE {<<x>> : x \in S} \cup {Append(q, x) : q \in SeqsUpTo(S, n - 1), x \in S}

\* the price values a message may carry: -0.01, 0, 0.005, 0.50, 1.0, 1.01
OfferedPrices == {0 - Cent, 0, 1, 50 * Cent, One, One + Cent}

\* Format 3 for the subscribed instrument X: every offered price, with and
\* without quotes; the quotes include a crossed book (bid 0.60, ask 0.50)
BookMsgsX ==
    {Dict([type |-> "book", asset_id |-> "X", price |-> Num(p)]) : p \in OfferedPrices}
    \cup {Dict([type |-> "book", asset_id |-> "X", price |-> Num(50 * Cent),
                best_bid |-> Num(60 * Cent), best_ask |-> Num(50 * Cent)]),
          Dict([type |-> "last_trade_price", market |-> "X",
                last_trade_price |-> Num(0), best_bid |-> Num(49 * Cent)]),
          Dict([type |-> "book", asset_id |-> "X", price |-> NotANumber])}

\* Format 3 and 4 for the instrument Y, which nobody subscribed
SingleMsgsY ==
    {Dict([type |-> "book", asset_id |-> "Y", price |-> Num(p), best_bid |-> Num(b),
           best_ask |-> Num(a)]) :
        p \in {0, 50 * Cent}, b \in {0, 48 * Cent}, a \in {0, 30 * Cent, 52 * Cent}}
    \cup {Dict([asset_id |-> "Y", price |-> Num(p)]) : p \in OfferedPrices}
    \cup {Dict([type |-> "price_update", token_id |-> "Y", mid |-> Num(50 * Cent)])}

\* Format 2: entries of a price_change batch: a full quote, an entry priced
\* from its ask, and an entry whose price is not a number
PriceChangeEntries ==
    {[asset_id |-> "Y", price |-> Num(50 * Cent), best_bid |-> Num(49 * Cent),
      best_ask |-> Num(51 * Cent)],
     [asset_id |-> "Y", best_ask |-> Num(30 * Cent)],
     [asset_id |-> "Y", price |-> NotANumber]}

PriceChangeMsgs ==
    {Dict([event_type |-> "price_change", price_changes |-> chs]) :
        chs \in SeqsUpTo(PriceChangeEntries, MaxBatch)}
        \cup {Dict([event_type |-> "price_change",
                    price_changes |-> <<[asset_id |-> "", price |-> Num(50 * Cent)],
                                        [asset_id |-> "Y", price |-> Num(One + Cent),
                                         best_bid |-> Num(49 * Cent)]>>])}

\* Format 1: entries of the initial snapshot: a two-level book, a crossed
\* book, and an entry without an instrument id
SnapshotEntries ==
    {[asset_id |-> "Y", bids |-> <<[price |-> Num(48 * Cent)], [p |-> Num(46 * Cent)]>>,
      asks |-> <<[price |-> Num(52 * Cent)], [price |-> Num(54 * Cent)]>>],
     [asset_id |-> "Y", bids |-> <<[price |-> Num(60 * Cent)]>>,
      asks |-> <<[price |-> Num(50 * Cent)]>>],
     [bids |-> <<[price |-> Num(48 * Cent)]>>]}

SnapshotMsgs ==
    {List(es) : es \in SeqsUpTo(SnapshotEntries, MaxBatch)}
        \cup {List(<<[asset_id |-> "Y", bids |-> <<[price |-> Num(One + Cent)]>>, asks |-> <<>>],
                      [asset_id |-> "Y", asks |-> <<[price |-> Num(52 * Cent)]>>]>>)}

TickMsgs == BookMsgsX \cup SingleMsgsY \cup PriceChangeMsgs \cup SnapshotMsgs \cup {Invalid}

\* ------------------------------------------------------------------------
\* Tick processing: the stream client fed with messages of all four shapes
\* ------------------------------------------------------------------------

NextTicks ==
    \/ StartConnect
    \/ ConnectOk
    \/ Subscribe({"X"})
    \/ \E m \in TickMsgs : HandleMessage(m, TRUE)

SpecTicks == Init /\ [][NextTicks]_vars

\* ------------------------------------------------------------------------
\* Claims about tick processing
\* ------------------------------------------------------------------------

SnapshotPriceInRange(snap) == 0 < snap.price /\ snap.price <= One

AllStoredSnapshots ==
    {price_cache[t] : t \in DOMAIN price_cache}
        \cup UNION {{price_history[t][i] : i \in 1..Len(price_history[t])} :
                        t \in DOMAIN price_history}

\* a single update (format 3 or 4) whose price is given, has no ask to fall
\* back on, and lies outside (0, 1]
IsOutOfRangeTick(m) ==
    /\ m.kind = "dict"
    /\ "event_type" \notin DOMAIN m.d
    /\ "price" \in DOMAIN m.d
    /\ "best_ask" \notin DOMAIN m.d
    /\ FloatOk(m.d.price)
    /\ (Float(m.d.price) <= 0 \/ Float(m.d.price) > One)

\* C1: every snapshot held in the latest-price cache (and in the history)
\* has its price in (0, 1], and handling a tick whose price is <= 0 or > 1
\* changes neither the cache nor the history and invokes no callback.
C1_OutOfRangePriceNeverStored ==
    /\ [](\A snap \in AllStoredSnapshots : SnapshotPriceInRange(snap))
    /\ [][(last'.op = "message" /\ IsOutOfRangeTick(last'.msg))
            => UNCHANGED <<price_cache, price_history, cb_calls, pos_calls>>]_vars

\* an out-of-range tick for X has just been handled while X already had a
\* cached snapshot and a history
C1_Witness ==
    /\ last.op = "message"
    /\ IsOutOfRangeTick(last.msg)
    /\ last.msg.d.asset_id = "X"
    /\ "X" \in DOMAIN price_cache
    /\ "X" \in DOMAIN price_history
    /\ price_history["X"] # <<>>

\* C2: every snapshot accepted into the price cache has best_ask >= best_bid
\* and a spread field equal to best_ask - best_bid.
C2_AskNotBelowBid ==
    \A t \in DOMAIN price_cache :
        /\ price_cache[t].best_ask >= price_cache[t].best_bid
        /\ price_cache[t].spread = price_cache[t].best_ask - price_cache[t].best_bid

\* ------------------------------------------------------------------------
\* Connection and subscription handling: connects, losses, backoff,
\* disconnect, subscribe/unsubscribe calls and a few inbound messages
\* ------------------------------------------------------------------------

Tokens == {"X", "Y"}

StreamMsgs == {Dict([type |-> "book", asset_id |-> "X", price |-> Num(50 * Cent)])}

NextStream ==
    \/ StartConnect
    \/ ConnectOk
    \/ ConnectionLost
    \/ BackoffDone
    \/ Disconnect
    \/ \E ids \in (SUBSET Tokens) \ {{}} : Subscribe(ids)
    \/ \E ids \in (SUBSET Tokens) \ {{}} : Unsubscribe(ids)
    \/ \E m \in StreamMsgs : HandleMessage(m, TRUE)

SpecStream == Init /\ [][NextStream]_vars

NextReconnect ==
    \/ StartConnect
    \/ ConnectOk
    \/ ConnectionLost
    \/ BackoffDone
    \/ Disconnect
    \/ Subscribe({"X"})
    \/ \E m \in StreamMsgs : HandleMessage(m, TRUE)

\* asyncio.sleep always returns, so the loop always gets past its backoff
SpecReconnect == Init /\ [][NextReconnect]_vars /\ WF_vars(BackoffDone)

\* ------------------------------------------------------------------------
\* Claims about the connection loop and subscriptions
\* ------------------------------------------------------------------------

\* C8: the reconnect delay starts at 1, is doubled (up to the cap of 30) by
\* every failed or closed connection and never shrinks across consecutive
\* failures, never exceeds the cap, and is reset to 1 by every successful
\* connect; while the client is running every failure or close is followed
\* by another connection attempt.
C8_BackoffDoublesCapsResets ==
    /\ [](pc = "idle" => reconnect_delay = 1)
    /\ [](reconnect_delay >= 1 /\ reconnect_delay <= 30)
    /\ [][last'.op = "backoff_done"
            => /\ reconnect_delay' = (IF 2 * reconnect_delay > 30 THEN 30
                                      ELSE 2 * reconnect_delay)
               /\ reconnect_delay' >= reconnect_delay
               /\ last'.slept = reconnect_delay]_vars
    /\ [][last'.op = "connect_ok" => reconnect_delay' = 1]_vars
    /\ [][last'.op = "lost" => (IF running THEN pc' = "backoff" ELSE pc' = "done")]_vars
    /\ ((pc = "backoff" /\ running) ~> (pc = "connecting" \/ ~running))

\* the fifth consecutive failure has been slept off and the delay sits at
\* the cap while the client is about to try again
C8_Witness ==
    /\ last.op = "backoff_done"
    /\ last.slept = 16
    /\ reconnect_delay = 30
    /\ pc = "connecting"
    /\ running

\* C9: subscribe(ids) adds ids to the subscription set and sends one wire
\* message, listing exactly the ids that were not subscribed before, only
\* when the client is connected and there is such an id; otherwise (not
\* connected, or every id already subscribed) it sends nothing, and a
\* repeated call leaves the subscription set unchanged.
C9_SubscribeSendsOnlyDelta ==
    [][last'.op = "subscribe"
         => /\ subscribed' = subscribed \cup last'.ids
            /\ (last'.ids \subseteq subscribed => subscribed' = subscribed /\ wire' = wire)
            /\ IF connected /\ ws # 0 /\ (last'.ids \ subscribed) # {}
               THEN /\ Len(wire') = Len(wire) + 1
                    /\ SubSeq(wire', 1, Len(wire)) = wire
                    /\ wire'[Len(wire')].assets_ids = last'.ids \ subscribed
               ELSE wire' = wire]_vars

\* while connected, a subscribe call naming only ids that were already
\* subscribed has just returned, after an earlier call did send a frame
C9_Witness ==
    /\ last.op = "subscribe"
    /\ last.was_connected
    /\ last.ids \subseteq last.before
    /\ Len(wire) >= 2
    /\ wire[Len(wire)].origin = "subscribe"

\* C10: a successful (re)connect sends exactly one subscribe frame, listing
\* exactly the ids subscribed at that moment, when that set is not empty
\* (and none when it is empty); the frame is on the wire before the read
\* loop handles any message of the connection, no other frame of the
\* connection comes from the connect path, and unsubscribe sends nothing.
C10_ResubscribeOnConnect ==
    /\ [][last'.op = "connect_ok"
            => /\ wire' = (IF subscribed # {}
                           THEN <<[type |-> "market", assets_ids |-> subscribed,
                                   origin |-> "connect"]>>
                           ELSE <<>>)
               /\ msg_count' = msg_count
               /\ subscribed' = subscribed]_vars
    /\ [](\A i \in 1..Len(wire) : wire[i].origin = "connect" => i = 1)
    /\ [][last'.op = "message" => pc = "reading" /\ wire' = wire]_vars
    /\ [][last'.op = "unsubscribe"
            => wire' = wire /\ subscribed' = subscribed \ last'.ids]_vars

\* a reconnect after X was unsubscribed and Y subscribed while disconnected:
\* the frame lists Y only
C10_Witness ==
    /\ last.op = "connect_ok"
    /\ "X" \in DOMAIN price_history
    /\ subscribed = {"Y"}
    /\ wire = <<[type |-> "market", assets_ids |-> {"Y"}, origin |-> "connect"]>>
    /\ reconnect_delay = 1

\* ------------------------------------------------------------------------
\* Wallet registration, unlock and session access for one Telegram user
\* ------------------------------------------------------------------------

UserIds == {1}

Passwords == {Str("p", MinPasswordLen - 1), Str("p", MinPasswordLen), Str("q", MinPasswordLen + 1)}

\* secrets.token_bytes(12): one of the possible nonces
Nonces == {[i \in 1..NonceLen |-> 0]}

\* the /connect requests offered: two accepted keys under different
\* passwords and salts, and the two rejected requests
RegisterInputs ==
    {[private_key |-> Str("a", KeyHexLen), password |-> Str("p", MinPasswordLen),
      salt |-> [i \in 1..SaltLen |-> 0]],
     [private_key |-> Str("a", KeyHexLen), password |-> Str("q", MinPasswordLen + 1),
      salt |-> [i \in 1..SaltLen |-> IF i = SaltLen THEN 1 ELSE 0]],
     [private_key |-> <<" ", "0", "x">> \o Str("b", KeyHexLen) \o <<" ">>,
      password |-> Str("p", MinPasswordLen), salt |-> [i \in 1..SaltLen |-> 0]],
     [private_key |-> Str("a", KeyHexLen - 1), password |-> Str("p", MinPasswordLen),
      salt |-> [i \in 1..SaltLen |-> 0]],
     [private_key |-> Str("a", KeyHexLen), password |-> Str("p", MinPasswordLen - 1),
      salt |-> [i \in 1..SaltLen |-> 0]]}

CorruptionModes == {"salt", "text", "truncate"}

IdleSteps == {SESSION_TIMEOUT, SESSION_TIMEOUT + 1}

NextUsers ==
    \/ \E u \in UserIds, r \in RegisterInputs, nonce \in Nonces :
           RegisterUser(u, r.private_key, r.password, <<>>, r.salt, nonce)
    \/ \E u \in UserIds, p \in Passwords : UnlockBegin(u, p)
    \/ \E u \in UserIds : UnlockFetch(u)
    \/ \E u \in UserIds, clientOk \in BOOLEAN : UnlockFinish(u, clientOk)
    \/ \E u \in UserIds, via \in Accessors : AccessSession(u, via)
    \/ \E u \in UserIds : LockSessionOp(u)
    \/ \E u \in UserIds, mode \in CorruptionModes : CorruptStoredBlob(u, mode)
    \/ \E d \in IdleSteps : Advance(d)

SpecUsers == Init /\ [][NextUsers]_vars

\* ------------------------------------------------------------------------
\* Claims about the credential vault and the session manager
\* ------------------------------------------------------------------------

\* C6: the blob stored for secret s under password p decrypts to exactly s
\* with p and to no secret with any other password; a damaged blob decrypts
\* to no secret with any password; and an unlock that fails for a wrong
\* password reports the same message, and creates no session, as one that
\* fails on a damaged blob.
C6_RoundTripAndGenericFailure ==
    /\ [](\A u \in DOMAIN users_db : \A q \in Passwords :
            DecryptPrivateKey(users_db[u].encrypted_key, q) =
                (IF ~truth[u].corrupted /\ q = truth[u].password
                 THEN [some |-> TRUE, v |-> truth[u].secret]
                 ELSE [some |-> FALSE]))
    /\ [][(last'.op = "unlock" /\ "corrupted" \in DOMAIN last'
             /\ (last'.corrupted \/ ~last'.right_password))
            => /\ ~last'.ok
               /\ last'.msg = "Wrong password. Try again."
               /\ sessions' = sessions]_vars
    /\ [][(last'.op = "unlock" /\ "corrupted" \in DOMAIN last'
             /\ ~last'.corrupted /\ last'.right_password /\ last'.client_ok)
            => /\ last'.ok
               /\ sessions'[last'.user].clob_client.key = unlock_task[last'.user].secret]_vars

\* an unlock with the right password has just failed on a damaged blob
\* with the wrong-password message
C6_Witness ==
    /\ last.op = "unlock"
    /\ "corrupted" \in DOMAIN last
    /\ last.corrupted
    /\ last.right_password
    /\ ~last.ok
    /\ last.msg = MsgWrongPassword

\* C22: an unlock_session that finds no live session stores a session only
\* when the user's record exists and the password decrypts its blob, and the
\* session it stores holds the decrypted key; every failing unlock (no
\* record, wrong password, damaged blob, client not built) leaves the
\* session map as it was; with a live session it succeeds and changes only
\* that session's last_activity.
C22_UnlockCreatesOnlyOnDecrypt ==
    [][last'.op = "unlock" =>
          \E u \in {last'.user} :
             /\ ~last'.ok => sessions' = sessions
             /\ last'.ok /\ last'.had_live =>
                   /\ u \in DOMAIN sessions
                   /\ ~IsExpired(sessions[u], now)
                   /\ sessions' = [sessions EXCEPT ![u].last_activity = now]
             /\ last'.ok /\ ~last'.had_live =>
                   /\ ~(u \in DOMAIN sessions /\ ~IsExpired(sessions[u], now))
                   /\ u \in DOMAIN users_db
                   /\ last'.right_password /\ ~last'.corrupted
                   /\ DOMAIN sessions' = DOMAIN sessions \cup {u}
                   /\ \A x \in DOMAIN sessions \ {u} : sessions'[x] = sessions[x]
                   /\ sessions'[u].clob_client.key = unlock_task[u].secret
                   /\ sessions'[u].last_activity = now]_vars

\* an unlock fails on a damaged blob while the user's expired session is
\* still in the map
C22_Witness ==
    /\ last.op = "unlock" /\ ~last.ok /\ ~last.had_live
    /\ last.msg = MsgWrongPassword /\ last.corrupted
    /\ last.user \in DOMAIN sessions

\* C7: an access through any of the four accessors to a session idle for
\* more than the timeout reports it absent and removes it from the session
\* map; an access to a session idle for at most the timeout returns it and
\* sets last_activity to now; an access to an absent session reports absent
\* and changes nothing; and a user's session appears in the map only by a
\* successful unlock of that user.
C7_LazyExpiry ==
    /\ [][last'.op = "access"
            => IF last'.user \notin DOMAIN sessions
               THEN ~last'.found /\ sessions' = sessions
               ELSE IF now - sessions[last'.user].last_activity > 1800
               THEN /\ ~last'.found
                    /\ last'.user \notin DOMAIN sessions'
               ELSE /\ last'.found
                    /\ sessions' = [sessions EXCEPT ![last'.user].last_activity = now]]_vars
    /\ [][\A u \in UserIds :
            (u \notin DOMAIN sessions /\ u \in DOMAIN sessions')
                => (last'.op = "unlock" /\ last'.user = u /\ last'.ok
                    /\ sessions'[u].last_activity = now)]_vars

\* get_user_client has just found a session idle for longer than the
\* timeout and removed it
C7_Witness ==
    /\ last.op = "access"
    /\ last.via = "get_user_client"
    /\ last.had
    /\ last.idle > SESSION_TIMEOUT
    /\ ~last.found
    /\ last.user \notin DOMAIN sessions

\* ------------------------------------------------------------------------
\* Trigger engine: alerts of user 1 on X, ticks for X, the alert read cache
\* ageing, and the user's wallet being connected and unlocked.  The wallet
\* is set up, if at all, before the feed delivers its first message.
\* ------------------------------------------------------------------------

\* ticks for X at or below the stop price and above the target price
AlertTicks ==
    {Dict([type |-> "book", asset_id |-> "X", price |-> Num(62 * Cent)]),
     Dict([type |-> "book", asset_id |-> "X", price |-> Num(66 * Cent)])}

StopPrice == 63 * Cent

TargetPrice == 65 * Cent

\* the clock moves by a step that outlasts the read cache
CacheAgeSteps == {ALERT_CACHE_TTL + 1}

\* the alert the user deletes again
RemovedAlerts == {1}

\* the read loop has not handled a message yet
BeforeFirstTick == msg_count = 0

TraderKey == Str("a", KeyHexLen)

TraderPassword == Str("p", MinPasswordLen)

NextAlerts ==
    \/ StartConnect
    \/ ConnectOk
    \/ \E m \in AlertTicks, sellOk \in BOOLEAN : HandleMessage(m, sellOk)
    \/ \E d \in CacheAgeSteps : Advance(d)
    \/ \E auto_trade \in BOOLEAN :
           AddAlert("1", "X", "price_alert", StopPrice, "below", auto_trade)
    \/ AddTakeProfit("1", "X", TargetPrice)
    \/ \E id \in RemovedAlerts : RemoveAlert(id)
    \/ \E salt \in {[i \in 1..SaltLen |-> 0]}, nonce \in Nonces :
           BeforeFirstTick /\ RegisterUser(1, TraderKey, TraderPassword, <<>>, salt, nonce)
    \/ BeforeFirstTick /\ UnlockBegin(1, TraderPassword)
    \/ BeforeFirstTick /\ UnlockFetch(1)
    \/ BeforeFirstTick /\ UnlockFinish(1, TRUE)

SpecAlerts == Init /\ [][NextAlerts]_vars

\* ------------------------------------------------------------------------
\* Claims about the trigger engine
\* ------------------------------------------------------------------------

\* the tick satisfies the alert's trigger condition
Qualifies(alert, tick) ==
    /\ tick.token_id = alert.token_id
    /\ \/ alert.side = "above" /\ tick.price >= alert.trigger_price
       \/ alert.side = "below" /\ tick.price <= alert.trigger_price

\* C3: every alert is marked triggered at most once over any sequence of
\* ticks, a stored triggered flag never goes back from true to false, and a
\* new alert gets an id no earlier alert had and starts untriggered.
C3_TriggeredAtMostOnce ==
    /\ [](\A id \in DOMAIN mark_calls : mark_calls[id] <= 1)
    /\ [][\A id \in DOMAIN alerts_db :
            (id \in DOMAIN alerts_db' /\ alerts_db[id].triggered) => alerts_db'[id].triggered]_vars
    /\ [][\A id \in (DOMAIN alerts_db') \ (DOMAIN alerts_db) :
            id \notin DOMAIN mark_calls /\ ~alerts_db'[id].triggered]_vars

\* the second tick in a row that qualifies for an alert marked on the first,
\* handled while the cached alert list still shows the alert as active
C3_Witness ==
    /\ last.op = "message"
    /\ cb_calls = 2
    /\ \E i \in 1..Len(cached_alerts) :
          /\ ~cached_alerts[i].triggered
          /\ mark_calls[cached_alerts[i].id] = 1
          /\ \E tick \in {last.ticks[k] : k \in 1..Len(last.ticks)} :
                Qualifies(cached_alerts[i], tick)
          /\ \E k \in 1..Len(sell_calls) :
                sell_calls[k].alert = cached_alerts[i].id /\ sell_calls[k].tick = 1

\* C4: the engine issues at most one sell call per alert; every sell call is
\* for an alert with the auto-trade flag and type stop-loss or take-profit,
\* names that alert's instrument and asks for 100 percent; a triggered alert
\* without the flag, or of another type, gets one plain notification and no
\* sell call.
C4_OneSellPerAutoTradeAlert ==
    /\ \A i, j \in 1..Len(sell_calls) : sell_calls[i].alert = sell_calls[j].alert => i = j
    /\ \A i \in 1..Len(sell_calls) :
          /\ sell_calls[i].auto_trade
          /\ sell_calls[i].alert_type \in {"stop_loss", "take_profit"}
          /\ sell_calls[i].percent = 100
          /\ sell_calls[i].alert \in DOMAIN alerts_db
                => /\ alerts_db[sell_calls[i].alert].token_id = sell_calls[i].token_id
                   /\ alerts_db[sell_calls[i].alert].auto_trade
                   /\ alerts_db[sell_calls[i].alert].alert_type = sell_calls[i].alert_type
                   /\ alerts_db[sell_calls[i].alert].triggered
    /\ \A id \in DOMAIN alerts_db :
          (alerts_db[id].triggered
             /\ ~(alerts_db[id].auto_trade
                    /\ alerts_db[id].alert_type \in {"stop_loss", "take_profit"}))
            => /\ \A i \in 1..Len(sell_calls) : sell_calls[i].alert # id
               /\ \E i \in 1..Len(notices) : notices[i] = [alert |-> id, kind |-> "alert"]

\* one tick has triggered a take-profit, which was sold, and a plain price
\* alert carrying the auto-trade flag, which was only notified
C4_Witness ==
    /\ Len(sell_calls) = 1
    /\ sell_calls[1].alert_type = "take_profit"
    /\ \E id \in DOMAIN alerts_db :
          /\ alerts_db[id].alert_type = "price_alert"
          /\ alerts_db[id].auto_trade
          /\ alerts_db[id].triggered
          /\ id # sell_calls[1].alert

\* C5: a tick for X that satisfies the trigger condition of a stored, not
\* yet triggered auto-trade stop-loss or take-profit alert marks that alert
\* triggered on that tick and, when its user has an active session, issues
\* the sell call on it.
C5_NextQualifyingTickTriggers ==
    [][last'.op = "message"
         => \A id \in DOMAIN alerts_db :
              (/\ alerts_db[id].auto_trade
               /\ alerts_db[id].alert_type \in {"stop_loss", "take_profit"}
               /\ ~alerts_db[id].triggered
               /\ \E k \in 1..Len(last'.ticks) : Qualifies(alerts_db[id], last'.ticks[k]))
                 => /\ alerts_db'[id].triggered
                    /\ (1 \in DOMAIN sessions /\ now - sessions[1].last_activity <= 1800)
                          => \E i \in 1..Len(sell_calls') : sell_calls'[i].alert = id]_vars

\* ------------------------------------------------------------------------
\* Guarded invocation of the trading client (PolymarketClient._clob_call)
\*
\* An error message is the set of the fragments it contains that the code
\* tests for (after lower-casing), plus any others.  A method's behaviour
\* during one invocation is the sequence of what its successive calls do:
\* [ok |-> TRUE, value |-> v] returns v, [ok |-> FALSE, error |-> m] raises
\* an exception whose text is m.
\* ------------------------------------------------------------------------

GeoKeywords ==
    {"geograph", "geofence", "geo restrict", "geo block", "geo-block",
     "not available in your region", "region restriction", "unavailable for legal",
     "country restriction"}

AuthKeywords == {"expired", "unauthorized", "auth", "401", "forbidden", "403"}

\* GEO_BLOCK_MSG
GEO_BLOCK_MSG == {"polymarket trading is geo-restricted"}

\* the text raised for a geo-block on the first call, with and without relay
GeoBlockRelayMsg == {"geo-blocked even through relay"}

GeoBlockHintMsg == GEO_BLOCK_MSG \cup {"set clob_relay_url to bypass"}

\* a classifier that also takes a bare forbidden/403 for a geo-block
IsGeoBlockErrorLoose(error_msg) == error_msg \cap (GeoKeywords \cup {"forbidden", "403"}) # {}

\* is_geo_block_error
IsGeoBlockError(error_msg) == error_msg \cap GeoKeywords # {}

\* '451' in err_msg or is_geo_block_error(err_msg)
GeoSignal(error_msg) == "451" \in error_msg \/ IsGeoBlockError(error_msg)

\* any(kw in err_lower for kw in ('expired', 'unauthorized', ...))
AuthSignal(error_msg) == error_msg \cap AuthKeywords # {}

Returned(v, invoked, refreshed) ==
    [returned |-> TRUE, value |-> v, invoked |-> invoked, refreshed |-> refreshed]

Raised(m, invoked, refreshed) ==
    [returned |-> FALSE, error |-> m, invoked |-> invoked, refreshed |-> refreshed]

\* what one _clob_call does with a method that behaves as `outcomes`:
\* the result or the exception, the number of calls of the method and the
\* number of _refresh_session calls
ClobAttempt(outcomes, relay) ==
    IF outcomes[1].ok THEN Returned(outcomes[1].value, 1, 0)
    ELSE IF GeoSignal(outcomes[1].error)
    THEN Raised(IF relay THEN GeoBlockRelayMsg ELSE GeoBlockHintMsg, 1, 0)
    ELSE IF AuthSignal(outcomes[1].error)
    THEN IF outcomes[2].ok THEN Returned(outcomes[2].value, 2, 1)
         ELSE IF GeoSignal(outcomes[2].error) THEN Raised(GEO_BLOCK_MSG, 2, 1)
         ELSE Raised(outcomes[2].error, 2, 1)
    ELSE Raised(outcomes[1].error, 1, 0)

\* self._consecutive_errors after the invocation: reset by a call that
\* returns, incremented once by the first exception
CounterAfter(counter, r) == IF r.returned THEN 0 ELSE counter + 1

\* a wrapper that refuses to call once two errors in a row were counted
ClobCallSticky(counter, outcomes, relay) ==
    IF counter >= 2
    THEN [returned |-> FALSE, error |-> GEO_BLOCK_MSG, invoked |-> 0, refreshed |-> 0,
          counter |-> counter + 1]
    ELSE [returned |-> ClobAttempt(outcomes, relay).returned,
          invoked |-> ClobAttempt(outcomes, relay).invoked,
          refreshed |-> ClobAttempt(outcomes, relay).refreshed,
          counter |-> CounterAfter(counter, ClobAttempt(outcomes, relay))]
         @@ ClobAttempt(outcomes, relay)

\* _clob_call(method, ...)
ClobCall(counter, outcomes, relay) ==
    [counter |-> CounterAfter(counter, ClobAttempt(outcomes, relay))]
        @@ ClobAttempt(outcomes, relay)

\* one guarded invocation made with nothing else going on
GuardedInvocation(outcomes, relay) ==
    /\ \E r \in {ClobCall(consecutive_errors, outcomes, relay)} :
          /\ r.counter <= MaxErrors
          /\ consecutive_errors' = r.counter
          /\ last' = [op |-> "clob_call", outcomes |-> outcomes, relay |-> relay,
                      before |-> consecutive_errors, result |-> r]
    /\ UNCHANGED <<delete_task, positions, handle_vars, tracker_vars, paper_vars, dispatch_vars>>
    /\ UNCHANGED <<stream_vars, clock_vars, alert_vars, user_vars>>

\* ------------------------------------------------------------------------
\* Orders (PolymarketClient.buy_market / sell_market), client in real mode
\*
\* Money is in dollars, share counts are in hundredths of a share, quotes
\* and order prices are in hundredths of a cent.  What the exchange does
\* during one trade is its input `env`: the behaviour of the client's
\* methods for each order attempt, the quote and the position held.
\* ------------------------------------------------------------------------

\* Config.MIN_TRADE_USD, Config.MAX_TRADE_USD, Config.DEFAULT_SLIPPAGE
MIN_TRADE_USD == 1

MAX_TRADE_USD == 100

DEFAULT_SLIPPAGE == 2

\* Config.ENABLE_FOK_ORDERS, Config.FOK_SELL_FALLBACK_GTC,
\* Config.GTC_FALLBACK_DISCOUNT, Config.MAX_SELL_RETRIES
ENABLE_FOK_ORDERS == TRUE

FOK_SELL_FALLBACK_GTC == TRUE

GTC_FALLBACK_DISCOUNT == 100

MAX_SELL_RETRIES == 3

\* 0.01 and 0.99 in hundredths of a cent
PriceFloor == 100

PriceCap == 9900

\* OrderResult(success=True, order_id=..., filled_size=..., avg_price=...)
OrderOk(order_id, filled_size, avg_price) ==
    [success |-> TRUE, order_id |-> order_id, filled_size |-> filled_size,
     avg_price |-> avg_price, error |-> {}]

\* OrderResult(success=False, error=...)
OrderFailed(error) ==
    [success |-> FALSE, order_id |-> "", filled_size |-> 0, avg_price |-> 0,
     error |-> error]

\* one entry of the log of calls a trade makes outside the process
CallEntry(method, guarded, order_type, price, amount, invoked, returned) ==
    [price |-> price, returned |-> returned, method |-> method,
     guarded |-> guarded, order_type |-> order_type, amount |-> amount, invoked |-> invoked]

\* a lookup that is not a call of the signed client's order methods
Lookup(st, method) ==
    [st EXCEPT !.calls = Append(@, CallEntry(method, FALSE, "", 0, 0, 1, TRUE))]

\* method(...) called directly on self.clob_client
DirectCall(counter, outcomes) ==
    [counter |-> counter] @@
    (IF outcomes[1].ok THEN Returned(outcomes[1].value, 1, 0)
     ELSE Raised(outcomes[1].error, 1, 0))

\* one call of an order method, through the wrapper or directly
OrderCall(st, method, guarded, order_type, price, amount, outcomes, relay) ==
    LET r == IF guarded THEN ClobCall(st.counter, outcomes, relay)
             ELSE DirectCall(st.counter, outcomes)
    IN  [st |-> [st EXCEPT !.counter = r.counter,
                           !.calls = Append(@, CallEntry(method, guarded, order_type,
                                                         price, amount, r.invoked,
                                                         r.returned))],
         out |-> r]

\* signed = create...(order); resp = post_order(signed, order_type)
SubmitOrder(st, create, guarded, order_type, price, amount, attempt, relay) ==
    LET c == OrderCall(st, create, guarded, order_type, price, amount,
                       attempt.create, relay)
        p == OrderCall(c.st, "post_order", guarded, order_type, price, amount,
                       attempt.post, relay)
    IN  IF ~c.out.returned
        THEN [st |-> c.st, raised |-> TRUE, error |-> c.out.error, resp |-> EmptyMap]
        ELSE IF ~p.out.returned
        THEN [st |-> p.st, raised |-> TRUE, error |-> p.out.error, resp |-> EmptyMap]
        ELSE [st |-> p.st, raised |-> FALSE, error |-> {}, resp |-> p.out.value]

\* resp.get('success', False)
RespSuccess(resp) == Get(resp, "success", FALSE)

\* resp.get('orderID', resp.get('order_id', ''))
RespOrderId(resp) == Get(resp, "orderID", Get(resp, "order_id", ""))

RECURSIVE FirstTruthy(_, _)
\* for key in keys: val = resp.get(key, 0); if val: return float(val)
FirstTruthy(resp, keys) ==
    IF keys = <<>> THEN 0
    ELSE IF Get(resp, Head(keys), 0) # 0 THEN resp[Head(keys)]
    ELSE FirstTruthy(resp, Tail(keys))

RespFilled(resp) ==
    FirstTruthy(resp, <<"size_matched", "filled", "filledSize", "sizeMatched">>)

RespAvgPrice(resp) == FirstTruthy(resp, <<"avgPrice", "average_price", "averagePrice">>)

\* resp.get('error', resp.get('errorMsg', 'FAK order failed'))
RespError(resp) == Get(resp, "error", Get(resp, "errorMsg", {"fak order failed"}))

\* min(best_ask * (1 + slippage / 100), 0.99)
LimitPrice(best_ask, slippage) == Min2((best_ask * (100 + slippage)) \div 100, PriceCap)

\* round(x, 2) of a price: to the nearest whole cent, ties to the even cent
RoundPrice(p) ==
    IF p % 100 > 50 \/ (p % 100 = 50 /\ (p \div 100) % 2 = 1)
    THEN (p \div 100 + 1) * 100
    ELSE (p \div 100) * 100

\* round(amount_usd / limit_price, 2), in hundredths of a share
BuySize(amount_usd, limit_price) ==
    LET n == amount_usd * 1000000
    IN  IF 2 * (n % limit_price) > limit_price
           \/ (2 * (n % limit_price) = limit_price /\ (n \div limit_price) % 2 = 1)
        THEN n \div limit_price + 1
        ELSE n \div limit_price

Done(st, result) == [counter |-> st.counter, calls |-> st.calls, result |-> result]

\* STEP 2 of buy_market: resting limit order at best ask plus slippage
BuyGtc(st, amount_usd, slippage, env) ==
    LET q == Lookup(st, "get_best_ask")
        limit_price == LimitPrice(env.quote, slippage)
        s == SubmitOrder(q, "create_order", TRUE, "GTC", RoundPrice(limit_price),
                         BuySize(amount_usd, limit_price), env.gtc[1], env.relay)
    IN  IF env.quote # 0 /\ env.quote > PriceFloor
        THEN IF s.raised THEN Done(s.st, OrderFailed(s.error))
             ELSE IF RespSuccess(s.resp)
             THEN Done(s.st, OrderOk(RespOrderId(s.resp), 0, limit_price))
             ELSE Done(s.st, OrderFailed(st.last_error))
        ELSE Done(q, OrderFailed(st.last_error))

RECURSIVE BuyFak(_, _, _, _, _)
\* STEP 1 of buy_market: for attempt in range(2)
BuyFak(st, attempt, amount_usd, slippage, env) ==
    IF attempt >= 2 THEN BuyGtc(st, amount_usd, slippage, env)
    ELSE LET s == SubmitOrder(st, "create_market_order", TRUE, "FAK", 0, amount_usd,
                              env.immediate[attempt + 1], env.relay)
         IN  IF s.raised
             THEN BuyFak([s.st EXCEPT !.last_error = s.error], attempt + 1,
                         amount_usd, slippage, env)
             ELSE IF RespSuccess(s.resp)
             THEN Done(s.st, OrderOk(RespOrderId(s.resp), RespFilled(s.resp),
                                     RespAvgPrice(s.resp)))
             ELSE BuyFak([s.st EXCEPT !.last_error = RespError(s.resp)], attempt + 1,
                         amount_usd, slippage, env)

\* the trade starts with the counter the client has and an empty call log
Begin(counter) == [counter |-> counter, calls |-> <<>>, last_error |-> {}]

\* buy_market(token_id, amount_usd, slippage=slippage)
BuyMarket(counter, amount_usd, slippage, env) ==
    IF amount_usd < MIN_TRADE_USD THEN Done(Begin(counter), OrderFailed({"min trade"}))
    ELSE IF amount_usd > MAX_TRADE_USD
    THEN Done(Begin(counter), OrderFailed({"max trade"}))
    ELSE BuyFak(Lookup(Begin(counter), "update_balance_allowance"), 0,
                amount_usd, slippage, env)

RECURSIVE SellGtc(_, _, _, _)
\* STEP 2 of sell_market: for attempt in range(Config.MAX_SELL_RETRIES)
SellGtc(st, attempt, shares, env) ==
    IF attempt >= MAX_SELL_RETRIES
    THEN Done(st, OrderFailed({"all sell attempts failed"}))
    ELSE LET sell_price == IF attempt = 0 THEN env.quote
                           ELSE Max2(PriceFloor, env.quote - GTC_FALLBACK_DISCOUNT)
             s == SubmitOrder(st, "create_order", TRUE, "GTC", sell_price, shares,
                              env.gtc[attempt + 1], env.relay)
         IN  IF ~s.raised /\ RespSuccess(s.resp)
             THEN Done(s.st, OrderOk(RespOrderId(s.resp), 0, sell_price))
             ELSE SellGtc(s.st, attempt + 1, shares, env)

\* a fallback that starts its attempts over once after they all failed
SellFallbackRepeating(st, shares, env) ==
    IF env.quote # 0 /\ env.quote > PriceFloor
    THEN LET first == SellGtc(Lookup(st, "get_best_bid"), 0, shares, env)
         IN  IF first.result.success THEN first
             ELSE SellGtc([counter |-> first.counter, calls |-> first.calls,
                           last_error |-> {}], 0, shares, env)
    ELSE Done(Lookup(st, "get_best_bid"), OrderFailed({"all sell attempts failed"}))

\* if Config.FOK_SELL_FALLBACK_GTC: best_bid = await self.get_best_bid(...)
SellFallback(st, shares, env) ==
    IF FOK_SELL_FALLBACK_GTC
    THEN IF env.quote # 0 /\ env.quote > PriceFloor
         THEN SellGtc(Lookup(st, "get_best_bid"), 0, shares, env)
         ELSE Done(Lookup(st, "get_best_bid"), OrderFailed({"all sell attempts failed"}))
    ELSE Done(st, OrderFailed({"all sell attempts failed"}))

RECURSIVE SellImmediate(_, _, _, _)
\* STEP 1 of sell_market: for order_type in (OrderType.FAK, OrderType.FOK)
SellImmediate(st, order_types, shares, env) ==
    IF order_types = <<>> THEN SellFallback(st, shares, env)
    ELSE LET s == SubmitOrder(st, "create_market_order", FALSE, Head(order_types), 0,
                              shares, env.immediate[3 - Len(order_types)], env.relay)
         IN  IF ~s.raised /\ RespSuccess(s.resp)
             THEN Done(s.st, OrderOk(RespOrderId(s.resp),
                                     IF RespFilled(s.resp) = 0 THEN shares
                                     ELSE RespFilled(s.resp),
                                     RespAvgPrice(s.resp)))
             ELSE SellImmediate(s.st, Tail(order_types), shares, env)

\* sell_market once the share count is known
SellShares(st, shares, env) ==
    IF shares <= 0 THEN Done(st, OrderFailed({"nothing to sell"}))
    ELSE IF ENABLE_FOK_ORDERS
    THEN SellImmediate(Lookup(st, "update_balance_allowance"), <<"FAK", "FOK">>,
                       shares, env)
    ELSE SellFallback(Lookup(st, "update_balance_allowance"), shares, env)

\* sell_market(token_id, shares=shares, percent=percent)
SellMarket(counter, shares, percent, env) ==
    IF shares.some THEN SellShares(Begin(counter), shares.v, env)
    ELSE IF ~env.held.some
    THEN Done(Lookup(Begin(counter), "get_positions"), OrderFailed({"position not found"}))
    ELSE SellShares(Lookup(Begin(counter), "get_positions"),
                    (env.held.v * percent) \div 100, env)

\* a trade made with nothing else going on; MaxErrors caps the counter
Trade(side, request, env, t) ==
    /\ t.counter <= MaxErrors
    /\ consecutive_errors' = t.counter
    /\ last' = [op |-> side, request |-> request, env |-> env, before |-> consecutive_errors,
                calls |-> t.calls, result |-> t.result]
    /\ UNCHANGED <<delete_task, positions, handle_vars, tracker_vars, paper_vars, dispatch_vars>>
    /\ UNCHANGED <<stream_vars, clock_vars, alert_vars, user_vars>>

Buy(amount_usd, slippage, env) ==
    \E t \in {BuyMarket(consecutive_errors, amount_usd, slippage, env)} :
        Trade("buy", [amount_usd |-> amount_usd, slippage |-> slippage], env, t)

Sell(shares, percent, env) ==
    \E t \in {SellMarket(consecutive_errors, shares, percent, env)} :
        Trade("sell", [shares |-> shares, percent |-> percent], env, t)

\* ------------------------------------------------------------------------
\* Trades offered to the client and what the exchange answers
\* ------------------------------------------------------------------------

Ok(v) == [ok |-> TRUE, value |-> v]

Err(m) == [ok |-> FALSE, error |-> m]

\* a method that does the same on its first call and on a retry
Always(o) == <<o, o>>

\* an order attempt whose creation succeeds and whose submission returns resp
Answered(resp) == [create |-> Always(Ok("signed")), post |-> Always(Ok(resp))]

\* matched at once: 5 shares at 50 cents
AttFilled ==
    Answered([success |-> TRUE, orderID |-> "o1", size_matched |-> 500, avgPrice |-> 5000])

\* accepted, nothing matched
AttAcceptedZero == Answered([success |-> TRUE, orderID |-> "o2", size_matched |-> 0])

\* accepted, the response carries no sizes (a resting order's response)
AttAccepted == Answered([success |-> TRUE, orderID |-> "o3"])

AttRejected == Answered([success |-> FALSE, errorMsg |-> {"not enough liquidity"}])

AttPostRaises == [create |-> Always(Ok("signed")), post |-> Always(Err({"timeout"}))]

\* the session expired: creation fails once, the retry and the submission go through
AttAuthThenFilled ==
    [create |-> <<Err({"unauthorized", "401"}), Ok("signed")>>,
     post |-> Always(Ok([success |-> TRUE, order_id |-> "o4", sizeMatched |-> 300,
                         averagePrice |-> 4900]))]

AttCreateGeo == [create |-> Always(Err({"451"})), post |-> Always(Err({"451"}))]

\* what the two immediate attempts of one trade do
ImmediateScripts ==
    {<<AttFilled, AttRejected>>,
     <<AttAcceptedZero, AttFilled>>,
     <<AttAcceptedZero, AttAcceptedZero>>,
     <<AttRejected, AttFilled>>,
     <<AttRejected, AttAcceptedZero>>,
     <<AttRejected, AttRejected>>,
     <<AttPostRaises, AttAuthThenFilled>>,
     <<AttPostRaises, AttRejected>>,
     <<AttCreateGeo, AttCreateGeo>>}

\* the quote (none, 1 cent, 50 cents, 51 cents, 98 cents) and what the
\* resting-limit attempts of one trade do
FallbackScripts ==
    {<<0, <<AttAccepted, AttAccepted, AttAccepted>>>>,
     <<100, <<AttAccepted, AttAccepted, AttAccepted>>>>,
     <<5100, <<AttAccepted, AttAccepted, AttAccepted>>>>,
     <<5000, <<AttRejected, AttAccepted, AttAccepted>>>>,
     <<9800, <<AttRejected, AttPostRaises, AttAccepted>>>>,
     <<5000, <<AttRejected, AttPostRaises, AttRejected>>>>}

TradeEnv(immediate, fallback, held) ==
    [immediate |-> immediate, quote |-> fallback[1], gtc |-> fallback[2],
     held |-> held, relay |-> FALSE]

TradeEnvs == {TradeEnv(i, f, None) : i \in ImmediateScripts, f \in FallbackScripts}

\* an exchange on which every order fills at once
QuietEnv ==
    TradeEnv(<<AttFilled, AttFilled>>, <<5000, <<AttAccepted, AttAccepted, AttAccepted>>>>,
             Some(500))

\* amounts inside and outside [MIN_TRADE_USD, MAX_TRADE_USD]
BuyAmounts == {1, 10, 100}

RefusedBuyAmounts == {0, 101}

\* share counts asked for: 5 shares, 20000 shares
SellSizes == {500, 2000000}

NextTrade ==
    \/ \E a \in BuyAmounts, env \in TradeEnvs : Buy(a, DEFAULT_SLIPPAGE, env)
    \/ \E a \in RefusedBuyAmounts : Buy(a, DEFAULT_SLIPPAGE, QuietEnv)
    \/ \E n \in SellSizes, env \in TradeEnvs : Sell(Some(n), 100, env)
    \/ \E env \in TradeEnvs : Sell(None, 50, [env EXCEPT !.held = Some(1000)])
    \/ Sell(None, 100, [QuietEnv EXCEPT !.held = None])
    \/ Sell(None, 100, [QuietEnv EXCEPT !.held = Some(0)])
    \/ Sell(Some(0), 100, QuietEnv)

SpecTrade == Init /\ [][NextTrade]_vars

\* ------------------------------------------------------------------------
\* Claims about buy_market and sell_market
\* ------------------------------------------------------------------------

\* what one immediate attempt of a buy yields, taken on its own
AttemptOutcome(attempt) ==
    SubmitOrder(Begin(0), "create_market_order", TRUE, "FAK", 0, 0, attempt, FALSE)

\* the attempt fails (raises or is rejected) or fills zero shares
FailsOrFillsZero(attempt) ==
    \/ AttemptOutcome(attempt).raised
    \/ ~RespSuccess(AttemptOutcome(attempt).resp)
    \/ RespFilled(AttemptOutcome(attempt).resp) = 0

\* the resting-limit order of a buy is accepted
RestingAccepted(env) ==
    /\ env.quote > PriceFloor
    /\ ~AttemptOutcome(env.gtc[1]).raised
    /\ RespSuccess(AttemptOutcome(env.gtc[1]).resp)

\* the submissions of one order type in a call log
Posts(calls, order_type) ==
    {i \in DOMAIN calls : calls[i].method = "post_order" /\ calls[i].order_type = order_type}

\* C11: in a real-mode buy of an accepted amount, when each of the two
\* immediate-or-cancel attempts fails or fills zero shares (and a best ask
\* above 0.01 is quoted and the exchange accepts the resting order), both
\* attempts are made, then exactly one resting-limit order is placed, at
\* min(best_ask * (1 + slippage/100), 0.99) to the cent, and the result is a
\* success with filled_size 0 and that limit price as average price.
C11_ZeroFillFallsBackToLimit ==
    (/\ last.op = "buy"
     /\ last.request.amount_usd \in BuyAmounts
     /\ FailsOrFillsZero(last.env.immediate[1])
     /\ FailsOrFillsZero(last.env.immediate[2])
     /\ RestingAccepted(last.env))
    => /\ Cardinality({i \in DOMAIN last.calls :
                          last.calls[i].method = "create_market_order"}) = 2
       /\ Cardinality(Posts(last.calls, "GTC")) = 1
       /\ \A i \in Posts(last.calls, "GTC") :
             /\ last.calls[i].price
                   = RoundPrice(LimitPrice(last.env.quote, last.request.slippage))
             /\ \A j \in Posts(last.calls, "FAK") : j < i
       /\ last.result.success
       /\ last.result.filled_size = 0
       /\ last.result.avg_price = LimitPrice(last.env.quote, last.request.slippage)

\* the share count a sell request comes to
SoldShares(request, env) ==
    IF request.shares.some THEN request.shares.v
    ELSE IF env.held.some THEN (env.held.v * request.percent) \div 100
    ELSE 0

\* what one order attempt of a sell yields, taken on its own
SellAttempt(order_type, attempt) ==
    [order_type |-> order_type,
     o |-> SubmitOrder(Begin(0), "create_order", order_type = "GTC", order_type, 0, 0,
                       attempt, FALSE)]

\* the attempts a sell has at its disposal, in the order FAK, FOK, GTC...
SellPlan(env) ==
    <<SellAttempt("FAK", env.immediate[1]), SellAttempt("FOK", env.immediate[2])>>
    \o (IF env.quote > PriceFloor
        THEN [i \in 1..MAX_SELL_RETRIES |-> SellAttempt("GTC", env.gtc[i])]
        ELSE <<>>)

AttemptSucceeds(a) == ~a.o.raised /\ RespSuccess(a.o.resp)

\* index in the plan of the first attempt that succeeds, 0 if none does
FirstSuccess(plan) ==
    IF \E i \in DOMAIN plan : AttemptSucceeds(plan[i])
    THEN SetMin({i \in DOMAIN plan : AttemptSucceeds(plan[i])})
    ELSE 0

IsCreate(c) == c.method \in {"create_order", "create_market_order"}

\* the order types of the orders a trade created, in time order
OrdersMade(calls) ==
    [i \in DOMAIN SelectSeq(calls, IsCreate) |-> SelectSeq(calls, IsCreate)[i].order_type]

\* C12: a real-mode sell of a positive share count tries FAK, then FOK, then
\* resting-limit orders, stops at the first order that succeeds and reports
\* that order's filled size and average price (for a resting order: nothing
\* filled yet, at its limit price); if no attempt succeeds it returns the
\* aggregate failure.
C12_SellReportsFirstSuccess ==
    (last.op = "sell" /\ SoldShares(last.request, last.env) > 0)
    => LET plan == SellPlan(last.env)
           k == FirstSuccess(plan)
           made == OrdersMade(last.calls)
       IN  /\ Len(made) = (IF k = 0 THEN Len(plan) ELSE k)
           /\ \A i \in DOMAIN made : made[i] = plan[i].order_type
           /\ k = 0 => /\ ~last.result.success
                       /\ last.result.error = {"all sell attempts failed"}
           /\ k > 0 => /\ last.result.success
                       /\ last.result.filled_size = RespFilled(plan[k].o.resp)
                       /\ last.result.avg_price
                             = IF k <= 2 THEN RespAvgPrice(plan[k].o.resp)
                               ELSE last.calls[Len(last.calls)].price

\* ------------------------------------------------------------------------
\* Claims about registration
\* ------------------------------------------------------------------------

FeeDen == 25000000

Exact(whole, frac) == [whole |-> whole, frac |-> frac]

\* x - y
Minus(x, y) == Exact(x.whole - y.whole, x.frac - y.frac)

\* x * n
Times(x, n) == Exact(x.whole * n, x.frac * n)

\* x >= 0: the floor of frac / FeeDen decides, the remainder being in [0, FeeDen)
NonNegative(x) == x.whole + (x.frac \div FeeDen) >= 0

\* x <= y
LessEq(x, y) == NonNegative(Minus(y, x))

\* a fee schedule that pays a rebate instead of charging
CalcFeeRebate(price) == 0 - 39 * price * (One - price)

\* calc_fee(price) = BASE_FEE * 4 * price * (1 - price), over FeeDen
CalcFee(price) == 39 * price * (One - price)

\* calc_fee_adjusted_pnl(avg_price, current_bid, size)
CalcFeeAdjustedPnl(avg_price, current_bid, size) ==
    LET buy_fee == CalcFee(avg_price)
        sell_fee == CalcFee(current_bid)
        effective_buy == Exact(avg_price, avg_price * buy_fee)
        effective_sell == Exact(current_bid, 0 - current_bid * sell_fee)
    IN  Times(Minus(effective_sell, effective_buy), size)

\* sell_price = self.best_bid if self.best_bid > 0 else self.current_price
SellPrice(pos) == IF pos.best_bid > 0 THEN pos.best_bid ELSE pos.current_price

\* LivePosition.pnl
Pnl(pos) == Exact((SellPrice(pos) - pos.avg_price) * pos.size, 0)

\* LivePosition.pnl_with_fees
PnlWithFees(pos) ==
    IF SellPrice(pos) <= 0 \/ pos.avg_price <= 0 THEN Exact(0, 0)
    ELSE CalcFeeAdjustedPnl(pos.avg_price, SellPrice(pos), pos.size)

\* the LivePosition load_positions builds from an exchange position
LivePosition(p, t) ==
    [size |-> p.size, avg_price |-> p.avg_price, current_price |-> p.current_price,
     best_bid |-> p.current_price, best_ask |-> 0, spread |-> 0, last_update |-> t]

\* load_positions that adds the fetched positions to the ones it has
LoadPositionsKeeping(fetched) ==
    /\ positions' = [tok \in {fetched[i].token_id : i \in DOMAIN fetched} |->
                        LivePosition(
                            fetched[SetMax({i \in DOMAIN fetched :
                                               fetched[i].token_id = tok})], now)]
                       @@ positions
    /\ ticked' = ticked
    /\ last' = [op |-> "load_positions", count |-> Len(fetched), fetched |-> fetched,
                before |-> DOMAIN positions]
    /\ UNCHANGED <<delete_task, consecutive_errors, handle_vars, tracking, paper_vars, dispatch_vars>>
    /\ UNCHANGED <<stream_vars, clock_vars, alert_vars, user_vars>>

\* load_positions: the cache is replaced by the positions the query returned
LoadPositions(fetched) ==
    /\ positions' = [tok \in {fetched[i].token_id : i \in DOMAIN fetched} |->
                        LivePosition(
                            fetched[SetMax({i \in DOMAIN fetched :
                                               fetched[i].token_id = tok})], now)]
    /\ ticked' = EmptyMap
    /\ last' = [op |-> "load_positions", count |-> Len(fetched), fetched |-> fetched,
                before |-> DOMAIN positions]
    /\ UNCHANGED <<delete_task, consecutive_errors, handle_vars, tracking, paper_vars, dispatch_vars>>
    /\ UNCHANGED <<stream_vars, clock_vars, alert_vars, user_vars>>

\* _on_price_update(snapshot): live fields of a tracked position are overwritten
OnPriceUpdate(snapshot) ==
    /\ positions' = IF snapshot.token_id \in DOMAIN positions
                    THEN [positions EXCEPT
                             ![snapshot.token_id].current_price = snapshot.price,
                             ![snapshot.token_id].best_bid = snapshot.best_bid,
                             ![snapshot.token_id].best_ask = snapshot.best_ask,
                             ![snapshot.token_id].spread = snapshot.spread,
                             ![snapshot.token_id].last_update = snapshot.timestamp]
                    ELSE positions
    /\ ticked' = IF snapshot.token_id \in DOMAIN positions
                 THEN (snapshot.token_id :> snapshot.timestamp) @@ ticked
                 ELSE ticked
    /\ last' = [op |-> "price_update", token_id |-> snapshot.token_id,
                tracked |-> snapshot.token_id \in DOMAIN positions]
    /\ UNCHANGED <<delete_task, consecutive_errors, handle_vars, tracking, paper_vars, dispatch_vars>>
    /\ UNCHANGED <<stream_vars, clock_vars, alert_vars, user_vars>>

\* positions the exchange query returns: prices 0, half a cent, 50 cents,
\* 99.5 cents and 1; sizes 0, 1 and 5 shares
PositionPrices == {0, 1, 50 * Cent, One - 1, One}

PositionSizes == {0, 1, 5}

FetchedPositions ==
    {<<>>} \cup
    {<<[token_id |-> "X", size |-> n, avg_price |-> a, current_price |-> c]>> :
        n \in PositionSizes, a \in PositionPrices, c \in PositionPrices}

\* snapshots the stream delivers: price, best bid and best ask as _apply_price
\* derives them
PositionSnapshots ==
    {MakeSnapshot(tok, p, b, 0, now) :
        tok \in Tokens, p \in PositionPrices \ {0}, b \in {0, 1, 50 * Cent, One - 2}}

NextPnl ==
    \/ \E fetched \in FetchedPositions : LoadPositions(fetched)
    \/ \E snapshot \in PositionSnapshots : OnPriceUpdate(snapshot)

SpecPnl == Init /\ [][NextPnl]_vars

\* ------------------------------------------------------------------------
\* Claims about P&L
\* ------------------------------------------------------------------------

\* the claim's case: size >= 0, entry and exit price strictly between 0 and 1
FeesApply(pos) ==
    /\ pos.size >= 0
    /\ 0 < pos.avg_price /\ pos.avg_price < One
    /\ 0 < SellPrice(pos) /\ SellPrice(pos) < One

\* C14: for every tracked position with size >= 0 whose entry price and
\* exit price are strictly between 0 and 1, the fee-adjusted P&L is less
\* than or equal to the raw P&L.
C14_FeesNeverImprovePnl ==
    \A tok \in DOMAIN positions :
        FeesApply(positions[tok]) => LessEq(PnlWithFees(positions[tok]), Pnl(positions[tok]))

\* a position bought at half a cent is quoted at a best bid of 99 cents by a
\* stream tick: its raw P&L is a gain and the fees reduce it
C14_Witness ==
    /\ last.op = "price_update"
    /\ "X" \in DOMAIN positions
    /\ FeesApply(positions["X"])
    /\ positions["X"].size = 5
    /\ positions["X"].avg_price = 1
    /\ positions["X"].best_bid = One - 2
    /\ ~LessEq(Pnl(positions["X"]), PnlWithFees(positions["X"]))
    /\ NonNegative(PnlWithFees(positions["X"]))

\* ------------------------------------------------------------------------
\* Guarded invocations offered to the wrapper
\* ------------------------------------------------------------------------

\* error texts: HTTP 451, a restriction phrase, an expired session (the text
\* "unauthorized" contains "auth"), a bare 403, and a timeout
ErrStatus451 == {"451"}

ErrRegion == {"not available in your region"}

ErrUnauthorized == {"unauthorized", "auth", "401"}

ErrForbidden == {"forbidden", "403"}

ErrTimeout == {"timeout"}

MethodOutcomes ==
    {Ok("result"), Err(ErrStatus451), Err(ErrRegion), Err(ErrUnauthorized),
     Err(ErrForbidden), Err(ErrTimeout)}

\* what the method does on its first call and on a retry
MethodBehaviours == MethodOutcomes \X MethodOutcomes

NextClob ==
    \E outcomes \in MethodBehaviours, relay \in BOOLEAN : GuardedInvocation(outcomes, relay)

SpecClob == Init /\ [][NextClob]_vars

\* ------------------------------------------------------------------------
\* Claims about the guarded wrapper
\* ------------------------------------------------------------------------

\* the error text carries status 451 or one of the restriction keywords
RestrictionSignal(m) == "451" \in m \/ m \cap GeoKeywords # {}

\* the distinct geo-block errors
GeoBlockErrors == {GEO_BLOCK_MSG, GeoBlockRelayMsg, GeoBlockHintMsg}

\* C15: within one guarded invocation, a first error with a restriction
\* signal (451 or keywords) is raised as the geo-block error after a single
\* call of the method; an authentication error causes exactly one refresh
\* and one retry, whose result is returned and whose error is re-raised (as
\* geo-block if it signals restriction); any other error is raised unchanged
\* after a single call; a bare forbidden/403 is not taken for a geo-block;
\* the method is called at most twice.
C15_GuardedInvocationOutcome ==
    last.op = "clob_call"
    => LET first == last.outcomes[1]
           second == last.outcomes[2]
           r == last.result
       IN  /\ r.invoked <= 2
           /\ first.ok => r.returned /\ r.value = first.value
                          /\ r.invoked = 1 /\ r.refreshed = 0
           /\ (~first.ok /\ RestrictionSignal(first.error))
                 => ~r.returned /\ r.error \in GeoBlockErrors
                    /\ r.invoked = 1 /\ r.refreshed = 0
           /\ (~first.ok /\ ~RestrictionSignal(first.error)
                  /\ first.error \cap AuthKeywords # {})
                 => /\ r.invoked = 2 /\ r.refreshed = 1
                    /\ second.ok => r.returned /\ r.value = second.value
                    /\ ~second.ok
                          => ~r.returned
                             /\ r.error = IF RestrictionSignal(second.error)
                                          THEN GEO_BLOCK_MSG ELSE second.error
           /\ (~first.ok /\ ~RestrictionSignal(first.error)
                  /\ first.error \cap AuthKeywords = {})
                 => ~r.returned /\ r.error = first.error
                    /\ r.invoked = 1 /\ r.refreshed = 0
           /\ (~first.ok /\ first.error \subseteq {"forbidden", "403"})
                 => /\ r.invoked = 2
                    /\ (~r.returned /\ r.error \in GeoBlockErrors)
                          => (~second.ok /\ RestrictionSignal(second.error))

\* a bare 403 has been answered by one refresh and one retry, and the
\* retry's timeout raised unchanged
C15_Witness ==
    /\ last.op = "clob_call"
    /\ last.outcomes = <<Err(ErrForbidden), Err(ErrTimeout)>>
    /\ ~last.result.returned
    /\ last.result.error = ErrTimeout
    /\ last.result.invoked = 2
    /\ last.result.refreshed = 1

\* C16: the outcome of a guarded invocation (what it returns or raises, how
\* often it calls the method and refreshes) is the one the same method
\* behaviour yields with a counter of 0, whatever the counter and the
\* earlier failures were; after an invocation that returns, the counter is 0.
C16_NoStickyLockout ==
    last.op = "clob_call"
    => LET r == last.result
           fresh == ClobCall(0, last.outcomes, last.relay)
       IN  /\ r.returned = fresh.returned
           /\ r.invoked = fresh.invoked
           /\ r.refreshed = fresh.refreshed
           /\ IF r.returned THEN r.value = fresh.value ELSE r.error = fresh.error
           /\ r.returned => consecutive_errors = 0
           /\ ~r.returned => consecutive_errors = last.before + 1

\* after at least two failed invocations in a row a call goes through and
\* the counter is back at 0
C16_Witness ==
    /\ last.op = "clob_call"
    /\ last.before >= 2
    /\ last.outcomes[1].ok
    /\ last.result.returned
    /\ last.result.invoked = 1
    /\ consecutive_errors = 0

\* ------------------------------------------------------------------------
\* Claims about how trades reach the exchange
\* ------------------------------------------------------------------------

IsOrderCall(c) == c.method \in {"post_order", "create_order", "create_market_order"}

\* C17: every order-creation and order-submission call a buy or a sell
\* makes to the signed trading client goes through the guarded wrapper.
C17_OrderCallsAreGuarded ==
    last.op \in {"buy", "sell"}
    => \A i \in DOMAIN last.calls : IsOrderCall(last.calls[i]) => last.calls[i].guarded

\* a share count (in hundredths) worth more than MAX_TRADE_USD at every
\* price of [0.01, 0.99]
OversizedSell(shares) == shares * PriceFloor > MAX_TRADE_USD * 1000000

\* the request is outside the configured trade-size bounds
OutOfBounds(op, request) ==
    \/ op = "buy" /\ (request.amount_usd < MIN_TRADE_USD \/ request.amount_usd > MAX_TRADE_USD)
    \/ op = "sell" /\ request.shares.some
          /\ (request.shares.v <= 0 \/ OversizedSell(request.shares.v))

\* C18: a buy or sell whose request is outside the configured minimum /
\* maximum trade size returns a failed result with a reason and makes no
\* position query, no quote lookup and no call to the trading client.
C18_ValidatedBeforeAnyCall ==
    (last.op \in {"buy", "sell"} /\ OutOfBounds(last.op, last.request))
    => /\ ~last.result.success
       /\ last.result.error # {}
       /\ last.calls = <<>>

\* ------------------------------------------------------------------------
\* Claims about auto-trade execution and the read loop
\* ------------------------------------------------------------------------

\* the notices that report how an auto-trade sell ended
SellOutcomeNotes(ns) == {i \in DOMAIN ns : ns[i].kind \in {"executed", "sell_failed"}}

\* C19: the auto-trade sell started by a tick runs as an independent unit of
\* work: the dispatch of an inbound message finishes, and the read loop is
\* free for the next message, without any sell having run to its end within
\* that dispatch.
C19_DispatchDoesNotAwaitSell ==
    [][last'.op = "message"
          => Cardinality(SellOutcomeNotes(notices')) = Cardinality(SellOutcomeNotes(notices))]_vars

\* ------------------------------------------------------------------------
\* Credential deletion (UserManager.delete_user) and the user lifecycle
\* ------------------------------------------------------------------------

\* delete_user, up to its storage access: the session is locked and the
\* call suspends before the DELETE
DeleteUserBegin(u) ==
    /\ u \notin delete_task
    /\ sessions' = LockSession(sessions, u)
    /\ delete_task' = delete_task \cup {u}
    /\ last' = [op |-> "delete_begin", user |-> u, had |-> (u \in DOMAIN sessions)]
    /\ UNCHANGED <<consecutive_errors, positions, handle_vars, tracker_vars, paper_vars, dispatch_vars>>
    /\ UNCHANGED <<users_db, unlock_task, truth>>
    /\ UNCHANGED <<stream_vars, clock_vars, alert_vars>>

\* delete_user: DELETE FROM users WHERE telegram_id = u, commit, return True
DeleteUserFinish(u) ==
    /\ u \in delete_task
    /\ users_db' = [x \in (DOMAIN users_db) \ {u} |-> users_db[x]]
    /\ truth' = [x \in (DOMAIN truth) \ {u} |-> truth[x]]
    /\ delete_task' = delete_task \ {u}
    /\ last' = [op |-> "delete", user |-> u, ok |-> TRUE,
                had |-> (u \in DOMAIN users_db)]
    /\ UNCHANGED <<consecutive_errors, positions, handle_vars, tracker_vars, paper_vars, dispatch_vars>>
    /\ UNCHANGED <<sessions, unlock_task>>
    /\ UNCHANGED <<stream_vars, clock_vars, alert_vars>>

\* the operations of one user's lifecycle, each asynchronous one split at
\* its storage access
NextLifecycle ==
    \/ \E u \in UserIds, nonce \in Nonces :
           RegisterUser(u, TraderKey, TraderPassword, <<>>, [i \in 1..SaltLen |-> 0], nonce)
    \/ \E u \in UserIds, p \in Passwords : UnlockBegin(u, p)
    \/ \E u \in UserIds : UnlockFetch(u)
    \/ \E u \in UserIds, clientOk \in BOOLEAN : UnlockFinish(u, clientOk)
    \/ \E u \in UserIds, via \in Accessors : AccessSession(u, via)
    \/ \E u \in UserIds : LockSessionOp(u)
    \/ \E u \in UserIds : DeleteUserBegin(u)
    \/ \E u \in UserIds : DeleteUserFinish(u)
    \/ \E d \in IdleSteps : Advance(d)

SpecLifecycle == Init /\ [][NextLifecycle]_vars

\* ------------------------------------------------------------------------
\* Claims about the user lifecycle
\* ------------------------------------------------------------------------

\* C20: in every interleaving of register, unlock, lock, expiry and
\* delete_user for one user, a session is held only for a user who has a
\* stored credential record, and when delete_user has completed the user
\* has no session.
C20_SessionOnlyWhileRegistered ==
    /\ \A u \in DOMAIN sessions : u \in DOMAIN users_db
    /\ last.op = "delete" => last.user \notin DOMAIN sessions

\* ------------------------------------------------------------------------
\* Per-user clients (polymarket_client.get_user_client) and a buy made with
\* one: buy_market suspends at `await asyncio.sleep(0.5)` between its two
\* immediate attempts and at `await self.get_best_ask(...)`
\* ------------------------------------------------------------------------

\* the call at index i is the first one made after a suspension of buy_market
ResumesAt(calls, i) ==
    \/ /\ calls[i].method = "create_market_order"
       /\ \E j \in 1..(i - 1) : calls[j].method = "create_market_order"
    \/ i > 1 /\ calls[i - 1].method = "get_best_ask"

\* index of the last call made before the next suspension, from call `from` on
SegmentEnd(calls, from) ==
    IF \E j \in (from + 1)..Len(calls) : ResumesAt(calls, j)
    THEN SetMin({j \in (from + 1)..Len(calls) : ResumesAt(calls, j)}) - 1
    ELSE Len(calls)

\* a handler obtains the user's client with get_user_client / require_auth
\* and calls buy_market, which runs up to its first suspension
UserBuyBegin(u, amount_usd, env) ==
    /\ u \notin DOMAIN trade_task
    /\ \E uc \in {GetUserClient(sessions, u, now)} :
          /\ sessions' = uc.sessions
          /\ IF ~uc.found
             THEN /\ trade_task' = trade_task
                  /\ last' = [op |-> "user_buy", user |-> u, client |-> FALSE]
             ELSE \E t \in {BuyMarket(consecutive_errors, amount_usd, DEFAULT_SLIPPAGE, env)} :
                  \E n \in {IF t.calls = <<>> THEN 0 ELSE SegmentEnd(t.calls, 1)} :
                     /\ trade_task' =
                           IF n = Len(t.calls) THEN trade_task
                           ELSE (u :> [clob_client |-> uc.clob_client, calls |-> t.calls,
                                       made |-> n, result |-> t.result]) @@ trade_task
                     /\ last' = [op |-> "user_buy", user |-> u, client |-> TRUE,
                                 clob_client |-> uc.clob_client,
                                 calls |-> SubSeq(t.calls, 1, n),
                                 finished |-> (n = Len(t.calls))]
    /\ UNCHANGED <<users_db, unlock_task, truth>>
    /\ UNCHANGED <<delete_task, consecutive_errors, positions, tracker_vars, paper_vars, dispatch_vars>>
    /\ UNCHANGED <<stream_vars, clock_vars, alert_vars>>

\* the suspended buy_market resumes and runs up to its next suspension or
\* its end, calling the ClobClient its PolymarketClient was given
UserBuyResume(u) ==
    /\ u \in DOMAIN trade_task
    /\ \E task \in {trade_task[u]} :
       \E n \in {SegmentEnd(task.calls, task.made + 1)} :
          /\ trade_task' =
                IF n = Len(task.calls)
                THEN [x \in (DOMAIN trade_task) \ {u} |-> trade_task[x]]
                ELSE [trade_task EXCEPT ![u].made = n]
          /\ last' = [op |-> "user_buy_resume", user |-> u,
                      clob_client |-> task.clob_client,
                      calls |-> SubSeq(task.calls, task.made + 1, n),
                      finished |-> (n = Len(task.calls))]
    /\ UNCHANGED <<delete_task, consecutive_errors, positions, tracker_vars, paper_vars, dispatch_vars>>
    /\ UNCHANGED <<stream_vars, clock_vars, alert_vars, user_vars>>

\* two users, each with a key of their own
HandleUsers == {1, 2}

KeyOf(u) == IF u = 1 THEN Str("a", KeyHexLen) ELSE Str("b", KeyHexLen)

\* exchanges on which the buy fills at once, after the pause, or only rests
HandleEnvs ==
    {TradeEnv(<<AttFilled, AttFilled>>, <<5100, <<AttAccepted, AttAccepted, AttAccepted>>>>, None),
     TradeEnv(<<AttRejected, AttFilled>>, <<5100, <<AttAccepted, AttAccepted, AttAccepted>>>>, None),
     TradeEnv(<<AttRejected, AttRejected>>, <<5100, <<AttAccepted, AttAccepted, AttAccepted>>>>, None)}

NextHandles ==
    \/ \E u \in HandleUsers, nonce \in Nonces :
           RegisterUser(u, KeyOf(u), TraderPassword, <<>>, [i \in 1..SaltLen |-> 0], nonce)
    \/ \E u \in HandleUsers : UnlockBegin(u, TraderPassword)
    \/ \E u \in HandleUsers : UnlockFetch(u)
    \/ \E u \in HandleUsers : UnlockFinish(u, TRUE)
    \/ \E u \in HandleUsers : LockSessionOp(u)
    \/ \E u \in HandleUsers, env \in HandleEnvs : UserBuyBegin(u, 10, env)
    \/ \E u \in HandleUsers : UserBuyResume(u)
    \/ Advance(SESSION_TIMEOUT + 1)

SpecHandles == Init /\ [][NextHandles]_vars

\* ------------------------------------------------------------------------
\* Claims about signing handles
\* ------------------------------------------------------------------------

\* the calls of a log that go to the signed trading client
SignedCalls(calls) ==
    {i \in DOMAIN calls :
        calls[i].method \in {"post_order", "create_order",
                             "create_market_order", "update_balance_allowance"}}

\* a step of a buy made with a per-user client calls the trading client
UsesHandle(l) ==
    /\ l.op \in {"user_buy", "user_buy_resume"}
    /\ IF l.op = "user_buy" THEN l.client ELSE TRUE
    /\ SignedCalls(l.calls) # {}

\* C21: a call to the trading client with a session's signing handle is made
\* only while that session is present and not expired (in particular not by
\* a buy that got its client before a lock and was suspended), and a
\* per-user client carries the handle of its own user's session.
C21_NoUseOfHandleAfterLock ==
    [][UsesHandle(last')
          => /\ last'.user \in DOMAIN sessions'
             /\ ~IsExpired(sessions'[last'.user], now)
             /\ sessions'[last'.user].clob_client = last'.clob_client
             /\ last'.clob_client.key = KeyOf(last'.user)]_vars

\* ------------------------------------------------------------------------
\* The trigger engine on ticks in and out of the accepted range, with the
\* alert's user unlocked, locked or expired
\* ------------------------------------------------------------------------

\* X at 62 and 66 cents, at half a cent and at 99.5 cents; Y at 66 cents
TriggerTicks ==
    {Dict([type |-> "book", asset_id |-> "X", price |-> Num(62 * Cent)]),
     Dict([type |-> "book", asset_id |-> "X", price |-> Num(66 * Cent)]),
     Dict([type |-> "book", asset_id |-> "X", price |-> Num(1)]),
     Dict([type |-> "book", asset_id |-> "X", price |-> Num(99 * Cent + 1)]),
     Dict([type |-> "book", asset_id |-> "Y", price |-> Num(66 * Cent)])}

NextTriggers ==
    \/ StartConnect
    \/ ConnectOk
    \/ \E m \in TriggerTicks : HandleMessage(m, TRUE)
    \/ Advance(SESSION_TIMEOUT + 1)
    \/ AddStopLoss("1", "X", StopPrice)
    \/ AddTakeProfit("1", "X", TargetPrice)
    \/ \E salt \in {[i \in 1..SaltLen |-> 0]}, nonce \in Nonces :
           BeforeFirstTick /\ RegisterUser(1, TraderKey, TraderPassword, <<>>, salt, nonce)
    \/ BeforeFirstTick /\ UnlockBegin(1, TraderPassword)
    \/ BeforeFirstTick /\ UnlockFetch(1)
    \/ BeforeFirstTick /\ UnlockFinish(1, TRUE)
    \/ LockSessionOp(1)

SpecTriggers == Init /\ [][NextTriggers]_vars

\* the alert with this id as check_alerts saw it: the stored row, or the
\* cached copy
KnownAlerts(id) ==
    {alerts_db[i] : i \in DOMAIN alerts_db \cap {id}}
       \cup {cached_alerts[i] : i \in {k \in 1..Len(cached_alerts) : cached_alerts[k].id = id}}

\* the alerts a step marks triggered
NewlyMarked == {id \in DOMAIN mark_calls : mark_calls'[id] > mark_calls[id]}

\* the entries a step appends to a log
Appended(before, after) == {after[i] : i \in (Len(before) + 1)..Len(after)}

\* the user of the alert has a session that is present and not expired
HasActiveSession(user_id) ==
    /\ UserIdOk(user_id)
    /\ ParseUserId(user_id) \in DOMAIN sessions
    /\ ~IsExpired(sessions[ParseUserId(user_id)], now)

\* C23: when a tick triggers an auto-trade stop-loss or take-profit whose
\* user has no active session, no sell call is issued for the alert, the
\* alert is marked triggered, and one notice of kind "no session" is sent
\* for it, and no sell-succeeded or sell-failed notice.
C23_NoSessionReportedNotSold ==
    [][\A id \in NewlyMarked : \A a \in KnownAlerts(id) :
          (a.auto_trade /\ a.alert_type \in {"stop_loss", "take_profit"}
              /\ UserIdOk(a.user_id) /\ ~HasActiveSession(a.user_id))
          => /\ \A c \in Appended(sell_calls, sell_calls') : c.alert # id
             /\ id \in DOMAIN alerts_db' => alerts_db'[id].triggered
             /\ [alert |-> id, kind |-> "no_session"] \in Appended(notices, notices')
             /\ \A n \in Appended(notices, notices') :
                   n.alert = id => n.kind = "no_session"]_vars

\* a stop-loss has triggered after its user's session expired
C23_Witness ==
    /\ last.op = "message"
    /\ now > SESSION_TIMEOUT
    /\ \E i \in 1..Len(notices) :
          /\ notices[i].kind = "no_session"
          /\ notices[i].alert \in DOMAIN alerts_db
          /\ alerts_db[notices[i].alert].alert_type = "stop_loss"
          /\ alerts_db[notices[i].alert].triggered
    /\ 1 \in DOMAIN users_db
    /\ 1 \notin DOMAIN sessions
    /\ sell_calls = <<>>

\* the price of a tick is one check_alerts accepts
InAlertRange(price) == price >= Cent /\ price <= 99 * Cent

\* C24: an alert is marked triggered only on a message carrying a tick for
\* the alert's own instrument with a price in [0.01, 0.99] that meets the
\* alert's above/below condition; a message whose ticks are all below 0.01
\* or above 0.99 marks no alert and issues no sell call.
C24_OnlyInRangeTicksTrigger ==
    [][/\ \A id \in NewlyMarked : \A a \in KnownAlerts(id) :
             /\ last'.op = "message"
             /\ \E k \in 1..Len(last'.ticks) :
                   /\ last'.ticks[k].token_id = a.token_id
                   /\ InAlertRange(last'.ticks[k].price)
                   /\ \/ a.side = "above" /\ last'.ticks[k].price >= a.trigger_price
                      \/ a.side = "below" /\ last'.ticks[k].price <= a.trigger_price
       /\ (last'.op = "message"
             /\ \A k \in 1..Len(last'.ticks) : ~InAlertRange(last'.ticks[k].price))
          => /\ mark_calls' = mark_calls
             /\ alerts_db' = alerts_db
             /\ sell_calls' = sell_calls
             /\ notices' = notices]_vars

\* a tick for X at 99.5 cents was stored by the stream client while an
\* untriggered take-profit for X at 65 cents was active
C24_Witness ==
    /\ last.op = "message"
    /\ \E k \in 1..Len(last.ticks) :
          last.ticks[k].token_id = "X" /\ last.ticks[k].price > 99 * Cent
    /\ "X" \in DOMAIN price_cache /\ price_cache["X"].price > 99 * Cent
    /\ \E id \in DOMAIN alerts_db :
          /\ alerts_db[id].side = "above" /\ alerts_db[id].token_id = "X"
          /\ ~alerts_db[id].triggered /\ mark_calls[id] = 0
    /\ sell_calls = <<>>

\* ------------------------------------------------------------------------
\* disconnect() against the connect loop
\* ------------------------------------------------------------------------

\* the connect loop with what its awaits guarantee: asyncio.sleep returns, a
\* connection attempt either succeeds or raises, and the read loop of a
\* socket that disconnect() closed ends.  Nothing makes the server send a
\* message or close a socket that is open.
SpecDisconnect ==
    /\ Init /\ [][NextReconnect]_vars
    /\ WF_vars(BackoffDone)
    /\ WF_vars(pc = "connecting" /\ (ConnectOk \/ ConnectionLost))
    /\ WF_vars(pc = "reading" /\ ws = 0 /\ ConnectionLost)

\* disconnect() has been called on a client whose connect loop was started
Disconnected == ~running /\ pc # "idle"

\* C25: once disconnect() has been called, wherever the connect loop is (a
\* connection open, in its backoff sleep, or a connection attempt in
\* flight), the loop eventually ends, it starts no further connection
\* attempt, and is_connected is false from then on.
C25_DisconnectStopsLoop ==
    /\ [](Disconnected => <>(pc = "done"))
    /\ [][Disconnected => ~(pc # "connecting" /\ pc' = "connecting")]_vars
    /\ [](Disconnected => ~IsConnected)

\* ------------------------------------------------------------------------
\* Simulated mode: buy_market and sell_market with is_paper set
\* (_paper_buy, _paper_sell).  Money in 1/10000 dollar, shares in
\* hundredths, prices in cents; quotients are rounded down to the unit.
\* ------------------------------------------------------------------------

PaperPosition(size, avg_price, current_price) ==
    [size |-> size, avg_price |-> avg_price, current_price |-> current_price]

\* _paper_buy(token_id, amount_usd) when get_price answers quoted
PaperBuyOutcome(acct, token_id, amount_usd, quoted) ==
    IF amount_usd * PaperUnit > acct.balance
    THEN [acct |-> acct, result |-> OrderFailed({"insufficient balance"})]
    ELSE LET price == IF quoted <= 0 THEN 50 ELSE quoted
             shares == (amount_usd * PaperUnit) \div price
             pos == IF token_id \in DOMAIN acct.positions
                    THEN LET old == acct.positions[token_id]
                         IN  PaperPosition(old.size + shares,
                                           (old.avg_price * old.size + amount_usd * PaperUnit)
                                              \div (old.size + shares),
                                           price)
                    ELSE PaperPosition(shares, price, price)
         IN  [acct |-> [acct EXCEPT
                          !.positions = (token_id :> pos) @@ @,
                          !.balance = @ - amount_usd * PaperUnit,
                          !.saved_positions = (token_id :> pos) @@ @,
                          !.saved_balance = <<acct.balance - amount_usd * PaperUnit>>],
              result |-> OrderOk("paper", shares, price)]

\* buy_market in simulated mode: the amount limits, then _paper_buy
PaperBuyMarket(acct, token_id, amount_usd, quoted) ==
    IF amount_usd < MIN_TRADE_USD
    THEN [acct |-> acct, result |-> OrderFailed({"min trade"})]
    ELSE IF amount_usd > MAX_TRADE_USD
    THEN [acct |-> acct, result |-> OrderFailed({"max trade"})]
    ELSE PaperBuyOutcome(acct, token_id, amount_usd, quoted)

Without(f, k) == [x \in (DOMAIN f) \ {k} |-> f[x]]

\* sell_market in simulated mode: _paper_sell(token_id, shares, percent)
PaperSell(acct, token_id, shares, percent) ==
    IF token_id \notin DOMAIN acct.positions
    THEN [acct |-> acct, result |-> OrderFailed({"position not found"})]
    ELSE LET pos == acct.positions[token_id]
             asked == IF shares.some /\ shares.v # 0 THEN shares.v
                      ELSE (pos.size * percent) \div 100
             sell_shares == IF asked > pos.size THEN pos.size ELSE asked
             left == [pos EXCEPT !.size = @ - sell_shares]
             gone == left.size <= 0
         IN  [acct |-> [acct EXCEPT
                          !.positions = IF gone THEN Without(@, token_id)
                                        ELSE (token_id :> left) @@ @,
                          !.balance = @ + sell_shares * pos.current_price,
                          !.saved_positions = IF gone THEN Without(@, token_id)
                                              ELSE (token_id :> left) @@ @,
                          !.saved_balance = <<acct.balance + sell_shares * pos.current_price>>],
              result |-> OrderOk("paper_sell", sell_shares, pos.current_price)]

PaperOp(op, request, r) ==
    /\ paper.ops < MaxPaperOps
    /\ paper' = [r.acct EXCEPT !.ops = paper.ops + 1]
    /\ last' = [op |-> op, request |-> request, before |-> paper, result |-> r.result]
    /\ UNCHANGED <<delete_task, consecutive_errors, positions, handle_vars, tracker_vars, dispatch_vars>>
    /\ UNCHANGED <<stream_vars, clock_vars, alert_vars, user_vars>>

\* buy_market(token_id, amount_usd) on a client in simulated mode
PaperBuyOp(token_id, amount_usd, quoted) ==
    PaperOp("paper_buy", [token_id |-> token_id, amount_usd |-> amount_usd, quoted |-> quoted],
            PaperBuyMarket(paper, token_id, amount_usd, quoted))

\* sell_market(token_id, shares, percent) on a client in simulated mode
PaperSellOp(token_id, shares, percent) ==
    PaperOp("paper_sell", [token_id |-> token_id, shares |-> shares, percent |-> percent],
            PaperSell(paper, token_id, shares, percent))

\* get_price: nothing, 25 cents, 50 cents
PaperQuotes == {0, 25, 50}

\* share counts and percentages asked for: 5 shares, 20000 shares, none;
\* all, half; and the same below zero
PaperSellSizes == {-500, 0, 500, 2000000}

PaperPercents == {-50, 50, 100}

\* the exchange rejects every order and gives no reason
AttRejectedNoReason == Answered([success |-> FALSE, errorMsg |-> {}])

UnexplainedEnv ==
    TradeEnv(<<AttRejectedNoReason, AttRejectedNoReason>>,
             <<0, <<AttAccepted, AttAccepted, AttAccepted>>>>, None)

NextResults ==
    \/ \E a \in BuyAmounts \cup RefusedBuyAmounts, q \in PaperQuotes : PaperBuyOp("X", a, q)
    \/ \E n \in PaperSellSizes : PaperSellOp("X", Some(n), 100)
    \/ \E p \in PaperPercents : PaperSellOp("X", None, p)
    \/ \E a \in BuyAmounts : Buy(a, DEFAULT_SLIPPAGE, QuietEnv)
    \/ \E a \in BuyAmounts : Buy(a, DEFAULT_SLIPPAGE, UnexplainedEnv)
    \/ Sell(Some(500), 100, QuietEnv)

SpecResults == Init /\ [][NextResults]_vars

\* C26: every OrderResult returned by a buy or a sell, on the exchange or
\* in simulated mode, has filled_size >= 0 and carries an error reason
\* exactly when success is false.
C26_ResultWellFormed ==
    last.op \in {"buy", "sell", "paper_sell", "paper_buy"}
       => /\ last.result.filled_size >= 0
          /\ (last.result.error # {}) <=> ~last.result.success

\* ------------------------------------------------------------------------
\* Position tracker: tracking, positions added and removed, REST refresh
\* ------------------------------------------------------------------------

\* LivePosition.is_stale at time t
STALE_AFTER == 30

IsStale(p, t) == IF p.last_update > 0 THEN (t - p.last_update) > STALE_AFTER ELSE TRUE

\* ws.subscribe(token_ids) as called by the position manager
TrackerSubscribe(token_ids) ==
    /\ Len(wire) + Len(SubscribeFrames(token_ids, subscribed, IsConnected)) <= MaxWire
    /\ subscribed' = subscribed \cup token_ids
    /\ price_history' = [t \in (NewTokens(token_ids, subscribed) \ DOMAIN price_history) |-> <<>>]
                            @@ price_history
    /\ wire' = wire \o SubscribeFrames(token_ids, subscribed, IsConnected)
    /\ UNCHANGED <<running, connected, ws, price_cache, reconnect_delay, msg_count,
                   pc, cb_calls, pos_calls>>

\* start_tracking: once only; subscribes the tokens held at that moment
StartTracking ==
    /\ IF tracking
       THEN UNCHANGED <<stream_vars, tracking>>
       ELSE /\ tracking' = TRUE
            /\ IF DOMAIN positions # {}
               THEN TrackerSubscribe(DOMAIN positions)
               ELSE UNCHANGED stream_vars
    /\ last' = [op |-> "start_tracking", was |-> tracking]
    /\ UNCHANGED <<delete_task, consecutive_errors, positions, handle_vars, ticked, paper_vars, dispatch_vars>>
    /\ UNCHANGED <<clock_vars, alert_vars, user_vars>>

\* add_position(token_id, ..., size, avg_price, current_price)
AddPosition(token_id, size, avg_price, current_price) ==
    /\ positions' = (token_id :>
                        LivePosition([size |-> size, avg_price |-> avg_price,
                                      current_price |-> IF current_price # 0 THEN current_price
                                                        ELSE avg_price], now))
                       @@ positions
    /\ ticked' = Without(ticked, token_id)
    /\ TrackerSubscribe({token_id})
    /\ last' = [op |-> "add_position", token_id |-> token_id]
    /\ UNCHANGED <<delete_task, consecutive_errors, handle_vars, tracking, paper_vars, dispatch_vars>>
    /\ UNCHANGED <<clock_vars, alert_vars, user_vars>>

\* self._positions.pop(token_id, None)
Popped(ps, token_id) == Without(ps, token_id)

\* remove_position(token_id)
RemovePosition(token_id) ==
    /\ positions' = Popped(positions, token_id)
    /\ ticked' = Without(ticked, token_id)
    /\ last' = [op |-> "remove_position", token_id |-> token_id]
    /\ UNCHANGED <<delete_task, consecutive_errors, handle_vars, tracking, paper_vars, dispatch_vars>>
    /\ UNCHANGED <<stream_vars, clock_vars, alert_vars, user_vars>>

\* update_position_size(token_id, new_size), sizes in whole shares
UpdatePositionSize(token_id, new_size) ==
    /\ positions' = IF token_id \notin DOMAIN positions THEN positions
                    ELSE IF new_size <= 0 THEN Popped(positions, token_id)
                    ELSE [positions EXCEPT ![token_id].size = new_size]
    /\ ticked' = IF token_id \in DOMAIN positions /\ new_size <= 0
                 THEN Without(ticked, token_id) ELSE ticked
    /\ last' = [op |-> "update_position_size", token_id |-> token_id, new_size |-> new_size]
    /\ UNCHANGED <<delete_task, consecutive_errors, handle_vars, tracking, paper_vars, dispatch_vars>>
    /\ UNCHANGED <<stream_vars, clock_vars, alert_vars, user_vars>>

\* refresh_all_prices: quotes[token] is what get_price answers, 0 when it
\* has no price or raises
RefreshAllPrices(quotes) ==
    /\ positions' = [tok \in DOMAIN positions |->
                        IF quotes[tok] > 0
                        THEN [positions[tok] EXCEPT
                                 !.current_price = quotes[tok],
                                 !.best_bid = IF @ <= 0 THEN quotes[tok] ELSE @,
                                 !.last_update = now]
                        ELSE positions[tok]]
    /\ last' = [op |-> "refresh_all_prices", quotes |-> quotes]
    /\ UNCHANGED <<delete_task, consecutive_errors, handle_vars, tracker_vars, paper_vars, dispatch_vars>>
    /\ UNCHANGED <<stream_vars, clock_vars, alert_vars, user_vars>>

\* the stream client hands a tick to the registered position callback: the
\* callback is registered by start_tracking and called for subscribed tokens
PositionTick(snapshot) ==
    /\ tracking
    /\ snapshot.token_id \in subscribed
    /\ OnPriceUpdate(snapshot)

\* what the exchange query returns: nothing, X, Y, or both (5 shares bought
\* at 50 cents, now at 50 cents)
Held(tok) == [token_id |-> tok, size |-> 5, avg_price |-> 50 * Cent, current_price |-> 50 * Cent]

TrackerFetches == {<<>>, <<Held("X")>>, <<Held("Y")>>, <<Held("X"), Held("Y")>>}

TrackerSnapshots == {MakeSnapshot(tok, 60 * Cent, 59 * Cent, 0, now) : tok \in Tokens}

TrackerQuotes == {[tok \in Tokens |-> IF tok = "X" THEN 55 * Cent ELSE 0]}

NextTracker ==
    \/ \E fetched \in TrackerFetches : LoadPositions(fetched)
    \/ StartTracking
    \/ \E tok \in Tokens : AddPosition(tok, 5, 50 * Cent, 0)
    \/ \E tok \in Tokens : RemovePosition(tok)
    \/ \E tok \in Tokens, n \in {0, 3} : UpdatePositionSize(tok, n)
    \/ \E quotes \in TrackerQuotes : RefreshAllPrices(quotes)
    \/ \E snapshot \in TrackerSnapshots : PositionTick(snapshot)
    \/ Advance(STALE_AFTER + 1)

SpecTracker == Init /\ [][NextTracker]_vars

\* ------------------------------------------------------------------------
\* Claims about the position tracker
\* ------------------------------------------------------------------------

\* the position load_positions builds from the last fetched entry for tok
Loaded(fetched, tok, t) ==
    LivePosition(fetched[SetMax({i \in DOMAIN fetched : fetched[i].token_id = tok})], t)

\* C27: when load_positions completes, the tracked set is exactly the set
\* of positions the query returned: every fetched position is tracked with
\* the fetched size and prices, and no position of the previous set that
\* the query did not return remains.
C27_LoadReplacesPositions ==
    [][last'.op = "load_positions"
          => /\ DOMAIN positions' = {last'.fetched[i].token_id : i \in DOMAIN last'.fetched}
             /\ \A tok \in DOMAIN positions' :
                   positions'[tok] = Loaded(last'.fetched, tok, now)]_vars

\* a load that returned X only, made while Y was tracked
C27_Witness ==
    /\ last.op = "load_positions"
    /\ "Y" \in last.before
    /\ last.count = 1 /\ last.fetched[1].token_id = "X"
    /\ DOMAIN positions = {"X"}

\* C28: once tracking has been started, after any sequence of
\* load_positions, start_tracking, add_position, update_position_size and
\* remove_position the token of every tracked position is in the stream
\* client's subscription set.
C28_TrackedPositionsSubscribed ==
    tracking => DOMAIN positions \subseteq subscribed

\* the time of the last stream tick applied to the position of tok lies
\* within the staleness window
TickedRecently(tok) == tok \in DOMAIN ticked /\ now - ticked[tok] <= STALE_AFTER

\* C29: a tracked position reports stale exactly when no stream tick has
\* been applied to it within the last 30 seconds; in particular a position
\* that was loaded, added or refreshed over REST and has had no tick in that
\* time reports stale.
C29_StaleWithoutRecentTick ==
    \A tok \in DOMAIN positions : IsStale(positions[tok], now) <=> ~TickedRecently(tok)

\* ------------------------------------------------------------------------
\* The alert commands of the bot (/alert, /stoploss, /takeprofit).  The
\* price argument is a number of cents or not a number; found says whether
\* the market search returned a market, yes_price is that market's price.
\* ------------------------------------------------------------------------

\* float(price_arg) / 100, in half-cents
CentsToPrice(price_arg) == Float(price_arg) * Cent

\* AlertManager.add_alert as called by a command: the INSERT
InsertAlert(user_id, token_id, alert_type, trigger_price, side, auto_trade) ==
    /\ alerts_db' = (next_alert_id :> AlertRow(next_alert_id, user_id, token_id, alert_type,
                                              trigger_price, side, auto_trade)) @@ alerts_db
    /\ next_alert_id' = next_alert_id + 1
    /\ mark_calls' = (next_alert_id :> 0) @@ mark_calls
    /\ UNCHANGED <<executed_alerts, cached_alerts, alert_cache_time, sell_calls, notices>>

\* a command has run: what it was given and whether it stored an alert
Commanded(op, price_arg, stored) ==
    /\ last' = [op |-> op, price_arg |-> price_arg, stored |-> stored]
    /\ UNCHANGED <<rest_vars, stream_vars, clock_vars, user_vars>>

\* alert_command
AlertCommand(user_id, price_arg, found, yes_price) ==
    /\ next_alert_id <= MaxAlerts
    /\ IF ~FloatOk(price_arg)
       THEN UNCHANGED alert_vars /\ Commanded("alert_command", price_arg, FALSE)
       ELSE IF CentsToPrice(price_arg) < Cent \/ CentsToPrice(price_arg) > 99 * Cent
       THEN UNCHANGED alert_vars /\ Commanded("alert_command", price_arg, FALSE)
       ELSE IF ~found
       THEN UNCHANGED alert_vars /\ Commanded("alert_command", price_arg, FALSE)
       ELSE /\ InsertAlert(user_id, "X", "price_alert", CentsToPrice(price_arg),
                           IF CentsToPrice(price_arg) > yes_price THEN "above" ELSE "below",
                           FALSE)
            /\ Commanded("alert_command", price_arg, TRUE)

\* stoploss_command
StoplossCommand(user_id, price_arg, found) ==
    /\ next_alert_id <= MaxAlerts
    /\ IF ~FloatOk(price_arg) \/ ~found
       THEN UNCHANGED alert_vars /\ Commanded("stoploss_command", price_arg, FALSE)
       ELSE /\ InsertAlert(user_id, "X", "stop_loss", CentsToPrice(price_arg), "below", TRUE)
            /\ Commanded("stoploss_command", price_arg, TRUE)

\* takeprofit_command
TakeprofitCommand(user_id, price_arg, found) ==
    /\ next_alert_id <= MaxAlerts
    /\ IF ~FloatOk(price_arg) \/ ~found
       THEN UNCHANGED alert_vars /\ Commanded("takeprofit_command", price_arg, FALSE)
       ELSE /\ InsertAlert(user_id, "X", "take_profit", CentsToPrice(price_arg), "above", TRUE)
            /\ Commanded("takeprofit_command", price_arg, TRUE)

\* price arguments: "abc", 0, 1, 50, 99, 100, 150 and -5
PriceArgs == {NotANumber, Num(0), Num(1), Num(50), Num(99), Num(100), Num(150), Num(0 - 5)}

NextCommands ==
    \/ \E a \in PriceArgs, found \in BOOLEAN, y \in {40 * Cent, 60 * Cent} :
           AlertCommand("1", a, found, y)
    \/ \E a \in PriceArgs, found \in BOOLEAN : StoplossCommand("1", a, found)
    \/ \E a \in PriceArgs, found \in BOOLEAN : TakeprofitCommand("1", a, found)
    \/ \E id \in 1..MaxAlerts : RemoveAlert(id)

SpecCommands == Init /\ [][NextCommands]_vars

\* the trigger price is one of [0.01, 0.99]
ValidTriggerPrice(price) == price >= Cent /\ price <= 99 * Cent

\* C30: every alert stored by the price-alert, stop-loss and take-profit
\* commands has a trigger price in [0.01, 0.99], and a command given a
\* trigger price outside that range stores no alert.
C30_StoredTriggerPriceInRange ==
    /\ [](\A id \in DOMAIN alerts_db : ValidTriggerPrice(alerts_db[id].trigger_price))
    /\ [][(last'.op \in {"alert_command", "stoploss_command", "takeprofit_command"}
             /\ FloatOk(last'.price_arg)
             /\ ~ValidTriggerPrice(CentsToPrice(last'.price_arg)))
          => ~last'.stored /\ alerts_db' = alerts_db]_vars

\* ------------------------------------------------------------------------
\* The expiry sweep (cleanup_expired, get_active_session_count)
\* ------------------------------------------------------------------------

\* [tid for tid, s in self._sessions.items() if s.is_expired]
ExpiredSessions(ss, t) == {u \in DOMAIN ss : IsExpired(ss[u], t)}

RECURSIVE LockAll(_, _)
LockAll(ss, ids) ==
    IF ids = {} THEN ss
    ELSE LET u == SetMin(ids) IN LockAll(LockSession(ss, u), ids \ {u})

\* the body cleanup_expired and get_active_session_count share: every
\* expired session is locked
CleanupExpired(ss, t) == LockAll(ss, ExpiredSessions(ss, t))

\* get_active_session_count(), called by the bot's status command: the only
\* caller of the sweep; cleanup_expired itself is called from nowhere and
\* post_init starts no periodic task
ActiveSessionCount ==
    /\ sessions' = CleanupExpired(sessions, now)
    /\ last' = [op |-> "session_count", count |-> Cardinality(DOMAIN sessions'),
                expired |-> ExpiredSessions(sessions, now)]
    /\ UNCHANGED <<users_db, unlock_task, truth>>
    /\ UNCHANGED <<rest_vars, stream_vars, clock_vars, alert_vars>>

NextSweep ==
    \/ \E u \in HandleUsers, nonce \in Nonces :
           RegisterUser(u, KeyOf(u), TraderPassword, <<>>, [i \in 1..SaltLen |-> 0], nonce)
    \/ \E u \in HandleUsers : UnlockBegin(u, TraderPassword)
    \/ \E u \in HandleUsers : UnlockFetch(u)
    \/ \E u \in HandleUsers : UnlockFinish(u, TRUE)
    \/ \E u \in HandleUsers, via \in Accessors : AccessSession(u, via)
    \/ ActiveSessionCount
    \/ Advance(SESSION_TIMEOUT + 1)

\* time passes whatever the users do; nothing else is scheduled: every other
\* step is a user's request
SpecSweep == Init /\ [][NextSweep]_vars /\ WF_vars(Advance(SESSION_TIMEOUT + 1))

\* the session of u is in the map and past its timeout
LeftExpired(u) == u \in DOMAIN sessions /\ IsExpired(sessions[u], now)

\* C31: a session idle for longer than the timeout is eventually torn down
\* even if nobody accesses it again, and a sweep removes exactly the expired
\* sessions, leaving every other session as it was.
C31_ExpiredSessionsSwept ==
    /\ [](LeftExpired(1) => <>(~LeftExpired(1)))
    /\ [](LeftExpired(2) => <>(~LeftExpired(2)))
    /\ [][last'.op = "session_count"
            => sessions' = [u \in (DOMAIN sessions) \ ExpiredSessions(sessions, now)
                               |-> sessions[u]]]_vars

\* ------------------------------------------------------------------------
\* Market stream client: the dispatch of one tick to the registered
\* callbacks, one step per awaited callback.  ApplyPrice above is the same
\* function run in one piece with the callbacks the bot registers.
\* ------------------------------------------------------------------------

\* ticks taken from the socket in one run
MaxTicks == 2

\* callbacks registered on each list
MaxCallbacks == 2

\* on_price_update(callback)
OnPriceUpdateRegister(callback) ==
    /\ Len(price_callbacks) < MaxCallbacks
    /\ price_callbacks' = Append(price_callbacks, callback)
    /\ last' = [op |-> "on_price_update"]
    /\ UNCHANGED <<position_callbacks, inbox, dispatching, events>>
    /\ UNCHANGED <<delete_task, consecutive_errors, positions, handle_vars, tracker_vars, paper_vars>>
    /\ UNCHANGED <<stream_vars, clock_vars, alert_vars, user_vars>>

\* on_position_update(callback)
OnPositionUpdateRegister(callback) ==
    /\ Len(position_callbacks) < MaxCallbacks
    /\ position_callbacks' = Append(position_callbacks, callback)
    /\ last' = [op |-> "on_position_update"]
    /\ UNCHANGED <<price_callbacks, inbox, dispatching, events>>
    /\ UNCHANGED <<delete_task, consecutive_errors, positions, handle_vars, tracker_vars, paper_vars>>
    /\ UNCHANGED <<stream_vars, clock_vars, alert_vars, user_vars>>

\* the socket delivers a message that makes _handle_message call
\* _apply_price(token_id, price, best_bid, best_ask)
TickArrives(tick) ==
    /\ pc = "reading"
    /\ Len(SelectSeq(events, LAMBDA e : e.ev = "tick")) + Len(inbox) < MaxTicks
    /\ inbox' = Append(inbox, tick)
    /\ last' = [op |-> "arrive"]
    /\ UNCHANGED <<price_callbacks, position_callbacks, dispatching, events>>
    /\ UNCHANGED <<delete_task, consecutive_errors, positions, handle_vars, tracker_vars, paper_vars>>
    /\ UNCHANGED <<stream_vars, clock_vars, alert_vars, user_vars>>

\* _apply_price up to its first callback: the sanity bound, the snapshot,
\* the cache and the history
ApplyPriceBegin ==
    /\ pc = "reading"
    /\ running
    /\ dispatching.phase = "idle"
    /\ inbox # <<>>
    /\ inbox' = Tail(inbox)
    /\ LET tick == Head(inbox)
           snap == MakeSnapshot(tick.token_id, tick.price, tick.best_bid, tick.best_ask, now)
       IN  IF ~PriceInRange(tick.price)
           THEN /\ events' = Append(events, [ev |-> "tick", tick |-> tick, accepted |-> FALSE])
                /\ UNCHANGED <<price_cache, price_history, dispatching>>
           ELSE /\ price_cache' = (tick.token_id :> snap) @@ price_cache
                /\ price_history' = HistoryAfter(price_history, subscribed, snap)
                /\ dispatching' = [phase |-> "general", snap |-> snap, i |-> 1]
                /\ events' = Append(events, [ev |-> "tick", tick |-> tick, accepted |-> TRUE,
                                             snap |-> snap])
    /\ last' = [op |-> "apply_price"]
    /\ UNCHANGED <<running, connected, ws, subscribed, reconnect_delay, msg_count, pc, wire,
                   cb_calls, pos_calls>>
    /\ UNCHANGED <<price_callbacks, position_callbacks>>
    /\ UNCHANGED <<delete_task, consecutive_errors, positions, handle_vars, tracker_vars, paper_vars>>
    /\ UNCHANGED <<clock_vars, alert_vars, user_vars>>

\* the callback a for-loop over a list takes at its i-th iteration
NextCallbackReversed(callbacks, i) == callbacks[Len(callbacks) + 1 - i]

NextCallback(callbacks, i) == callbacks[i]

\* the loop position after a callback that raised ends the loop
AfterCallbackAborting(d, raised) == IF raised THEN [d EXCEPT !.i = MaxCallbacks + 1] ELSE [d EXCEPT !.i = @ + 1]

\* try: await callback(snap); except Exception: pass
AfterCallback(d, raised) == [d EXCEPT !.i = @ + 1]

\* one iteration of "for callback in self._price_callbacks"
InvokePriceCallback(raised) ==
    /\ dispatching.phase = "general"
    /\ dispatching.i <= Len(price_callbacks)
    /\ events' = Append(events, [ev |-> "call", list |-> "price",
                                 callback |-> NextCallback(price_callbacks, dispatching.i),
                                 snap |-> dispatching.snap,
                                 cached |-> price_cache[dispatching.snap.token_id],
                                 raised |-> raised])
    /\ cb_calls' = cb_calls + 1
    /\ dispatching' = AfterCallback(dispatching, raised)
    /\ last' = [op |-> "callback"]
    /\ UNCHANGED <<running, connected, ws, subscribed, price_cache, price_history,
                   reconnect_delay, msg_count, pc, wire, pos_calls>>
    /\ UNCHANGED <<price_callbacks, position_callbacks, inbox>>
    /\ UNCHANGED <<delete_task, consecutive_errors, positions, handle_vars, tracker_vars, paper_vars>>
    /\ UNCHANGED <<clock_vars, alert_vars, user_vars>>

\* the first loop is exhausted: "if token_id in self._subscribed_tokens"
PriceCallbacksDone ==
    /\ dispatching.phase = "general"
    /\ dispatching.i > Len(price_callbacks)
    /\ dispatching' = IF dispatching.snap.token_id \in subscribed
                      THEN [dispatching EXCEPT !.phase = "position", !.i = 1]
                      ELSE [phase |-> "idle"]
    /\ last' = [op |-> "callbacks_done"]
    /\ UNCHANGED <<price_callbacks, position_callbacks, inbox, events>>
    /\ UNCHANGED <<delete_task, consecutive_errors, positions, handle_vars, tracker_vars, paper_vars>>
    /\ UNCHANGED <<stream_vars, clock_vars, alert_vars, user_vars>>

\* one iteration of "for callback in self._position_callbacks"
InvokePositionCallback(raised) ==
    /\ dispatching.phase = "position"
    /\ dispatching.i <= Len(position_callbacks)
    /\ events' = Append(events, [ev |-> "call", list |-> "position",
                                 callback |-> NextCallback(position_callbacks, dispatching.i),
                                 snap |-> dispatching.snap,
                                 cached |-> price_cache[dispatching.snap.token_id],
                                 raised |-> raised])
    /\ pos_calls' = pos_calls + 1
    /\ dispatching' = AfterCallback(dispatching, raised)
    /\ last' = [op |-> "callback"]
    /\ UNCHANGED <<running, connected, ws, subscribed, price_cache, price_history,
                   reconnect_delay, msg_count, pc, wire, cb_calls>>
    /\ UNCHANGED <<price_callbacks, position_callbacks, inbox>>
    /\ UNCHANGED <<delete_task, consecutive_errors, positions, handle_vars, tracker_vars, paper_vars>>
    /\ UNCHANGED <<clock_vars, alert_vars, user_vars>>

\* the second loop is exhausted: _apply_price returns to the read loop
PositionCallbacksDone ==
    /\ dispatching.phase = "position"
    /\ dispatching.i > Len(position_callbacks)
    /\ dispatching' = [phase |-> "idle"]
    /\ last' = [op |-> "callbacks_done"]
    /\ UNCHANGED <<price_callbacks, position_callbacks, inbox, events>>
    /\ UNCHANGED <<delete_task, consecutive_errors, positions, handle_vars, tracker_vars, paper_vars>>
    /\ UNCHANGED <<stream_vars, clock_vars, alert_vars, user_vars>>

Registered(callbacks) == {callbacks[i] : i \in 1..Len(callbacks)}

\* ticks of the run: X at 50 and 60 cents, Y at 50 cents, X above 1
InboundTick(token_id, price) ==
    [token_id |-> token_id, price |-> price, best_bid |-> 0, best_ask |-> 0]

DispatchTicks ==
    {InboundTick("X", 50 * Cent), InboundTick("X", 60 * Cent), InboundTick("Y", 50 * Cent),
     InboundTick("X", One + Cent)}

\* check_alerts and _on_price_update catch every exception themselves; the
\* other callbacks return or raise
PriceCallbackNames == {"check_alerts", "recorder"}

PositionCallbackNames == {"_on_price_update", "panel"}

MayRaise(callbacks) ==
    IF dispatching.phase # "idle" /\ dispatching.i <= Len(callbacks)
          /\ NextCallback(callbacks, dispatching.i) \in {"recorder", "panel"}
    THEN BOOLEAN
    ELSE {FALSE}

NextDispatch ==
    \/ StartConnect
    \/ ConnectOk
    \/ pc = "idle" /\ Subscribe({"X"})
    \/ Unsubscribe({"X"})
    \/ /\ pc = "idle"
       /\ \E callback \in PriceCallbackNames \ Registered(price_callbacks) :
              OnPriceUpdateRegister(callback)
    \/ /\ pc = "idle"
       /\ \E callback \in PositionCallbackNames \ Registered(position_callbacks) :
              OnPositionUpdateRegister(callback)
    \/ \E tick \in DispatchTicks : TickArrives(tick)
    \/ ApplyPriceBegin
    \/ \E raised \in MayRaise(price_callbacks) : InvokePriceCallback(raised)
    \/ PriceCallbacksDone
    \/ \E raised \in MayRaise(position_callbacks) : InvokePositionCallback(raised)
    \/ PositionCallbacksDone

SpecDispatch == Init /\ [][NextDispatch]_vars

\* ------------------------------------------------------------------------
\* Claims about the dispatch of ticks
\* ------------------------------------------------------------------------

\* the index of the last "tick" event before position k of the log (0: none)
TickBefore(k) ==
    SetMax({0} \cup {j \in 1..(k - 1) : events[j].ev = "tick"})

\* the callbacks of one list invoked since the last tick was taken, in order
CallsOfCurrentTick(list) ==
    LET from == TickBefore(Len(events) + 1)
        calls == SelectSeq(SubSeq(events, from + 1, Len(events)),
                           LAMBDA e : e.ev = "call" /\ e.list = list)
    IN  [i \in 1..Len(calls) |-> calls[i].callback]

\* the accepted ticks of one instrument, in the order taken
AcceptedTicks(token_id) ==
    SelectSeq(events, LAMBDA e : e.ev = "tick" /\ e.accepted /\ e.tick.token_id = token_id)

TickTaken == Len(events') = Len(events) + 1 /\ events'[Len(events')].ev = "tick"

\* C32: ticks are dispatched one at a time in the order received: when a
\* callback runs the cache already holds the tick's snapshot; every callback
\* invocation belongs to the tick taken last, and a tick is taken only when
\* the dispatch of the previous one is over; the general callbacks run in
\* registration order for every accepted tick, the position-relevant ones
\* after them, in registration order, and only when the instrument is
\* subscribed; the cache holds the last accepted tick of each instrument.
C32_TicksDispatchedInOrder ==
    /\ [](\A k \in 1..Len(events) :
            events[k].ev = "call" =>
                /\ events[k].cached = events[k].snap
                /\ TickBefore(k) # 0
                /\ events[TickBefore(k)].accepted
                /\ events[TickBefore(k)].snap = events[k].snap
                /\ events[k].list = "price" =>
                      \A j \in (TickBefore(k) + 1)..(k - 1) : events[j].list = "price")
    /\ [](\A token_id \in Tokens :
            IF AcceptedTicks(token_id) = <<>>
            THEN token_id \notin DOMAIN price_cache
            ELSE /\ token_id \in DOMAIN price_cache
                 /\ price_cache[token_id].price
                        = AcceptedTicks(token_id)[Len(AcceptedTicks(token_id))].tick.price)
    /\ [][TickTaken =>
            /\ dispatching.phase = "idle"
            /\ events'[Len(events')].tick = Head(inbox)
            /\ inbox' = Tail(inbox)]_vars
    /\ [][(dispatching.phase = "general" /\ dispatching'.phase # "general") =>
            /\ CallsOfCurrentTick("price") = price_callbacks
            /\ CallsOfCurrentTick("position") = <<>>
            /\ dispatching'.phase = "position" <=> dispatching.snap.token_id \in subscribed]_vars
    /\ [][(dispatching.phase = "position" /\ dispatching'.phase # "position") =>
            /\ CallsOfCurrentTick("position") = position_callbacks
            /\ dispatching'.phase = "idle"]_vars

\* two ticks of the subscribed instrument X, at different prices, have been
\* dispatched to two general and two position-relevant callbacks each, the
\* general ones registered with check_alerts last
C32_Witness ==
    /\ dispatching.phase = "idle"
    /\ Len(events) = 10
    /\ Len(AcceptedTicks("X")) = 2
    /\ AcceptedTicks("X")[1].tick.price # AcceptedTicks("X")[2].tick.price
    /\ price_callbacks = <<"recorder", "check_alerts">>
    /\ Len(position_callbacks) = 2

\* a callback of the tick being dispatched has raised
RaisedInCurrentTick ==
    \E k \in (TickBefore(Len(events) + 1) + 1)..Len(events) : events[k].raised

CallbackReturned == Len(events') = Len(events) + 1 /\ events'[Len(events')].ev = "call"

\* C33: a callback that raises does not end the dispatch: the cache and the
\* history keep the snapshot, the loop moves on to the next callback of the
\* same list, every registered general callback and, for a subscribed
\* instrument, every position-relevant callback is still invoked for that
\* tick, and the read loop stays in its reading state.
C33_RaisingCallbackDoesNotStopDispatch ==
    /\ [][(CallbackReturned /\ events'[Len(events')].raised) =>
            /\ UNCHANGED <<price_cache, price_history, running, connected, ws, pc, inbox>>
            /\ price_cache[dispatching.snap.token_id] = dispatching.snap
            /\ dispatching' = [dispatching EXCEPT !.i = @ + 1]]_vars
    /\ [][(RaisedInCurrentTick /\ dispatching.phase = "general"
                /\ dispatching'.phase # "general") =>
            /\ CallsOfCurrentTick("price") = price_callbacks
            /\ dispatching.snap.token_id \in subscribed => dispatching'.phase = "position"]_vars
    /\ [][(RaisedInCurrentTick /\ dispatching.phase = "position"
                /\ dispatching'.phase # "position") =>
            /\ CallsOfCurrentTick("position") = position_callbacks
            /\ pc = "reading"
            /\ running]_vars

\* the first tick's first general callback and first position-relevant
\* callback raised, the callbacks registered after them ran all the same,
\* and the read loop has taken the second tick
C33_Witness ==
    /\ Len(events) >= 6
    /\ events[2].ev = "call" /\ events[2].raised /\ events[2].list = "price"
    /\ events[3].ev = "call" /\ events[3].callback = "check_alerts"
    /\ events[4].ev = "call" /\ events[4].raised /\ events[4].list = "position"
    /\ events[5].ev = "call" /\ events[5].callback = "_on_price_update"
    /\ events[6].ev = "tick" /\ events[6].accepted
    /\ price_cache["X"] = events[6].snap

\* ------------------------------------------------------------------------
\* Claims about malformed payloads
\* ------------------------------------------------------------------------

\* the shape of a batched message ("" for a single update)
BatchShape(msg) ==
    IF msg.kind = "list" THEN "snapshot"
    ELSE IF msg.kind = "dict" /\ Get(msg.d, "event_type", "") = "price_change"
         THEN "price_change"
         ELSE ""

BatchEntries(msg) ==
    IF msg.kind = "list" THEN msg.entries ELSE Get(msg.d, "price_changes", <<>>)

\* the ticks the handler applies for a batch that holds this entry only
AppliedAlone(entry, shape) ==
    EntryLoop(TickState, subscribed, <<entry>>, shape, now, TRUE).ticks

Snapshots(ticks) == {ticks[i] : i \in 1..Len(ticks)}

\* C34: a payload that cannot be parsed applies no tick, and in a batched
\* message (snapshot list or price-change batch) every entry that would be
\* applied when sent alone is applied, whatever the other entries of the
\* message are.
C34_MalformedEntryAffectsOnlyItself ==
    last.op = "message" =>
        /\ last.msg.kind = "invalid" => last.ticks = <<>>
        /\ BatchShape(last.msg) # "" =>
              \A i \in 1..Len(BatchEntries(last.msg)) :
                  Snapshots(AppliedAlone(BatchEntries(last.msg)[i], BatchShape(last.msg)))
                      \subseteq Snapshots(last.ticks)

\* ------------------------------------------------------------------------
\* Claims about the number and the prices of the order attempts
\* ------------------------------------------------------------------------

\* the order creations of the last trade with the given method, in order
Creations(method) == SelectSeq(last.calls, LAMBDA c : c.method = method)

\* the order submissions of the last trade with one of the given order types
Submissions(order_types) ==
    SelectSeq(last.calls, LAMBDA c : c.method = "post_order" /\ c.order_type \in order_types)

\* C35: a buy makes at most 2 immediate attempts and at most 1 resting-limit
\* attempt, a sell at most 2 immediate attempts and at most MAX_SELL_RETRIES
\* resting-limit attempts, and no call of the trading client is invoked more
\* than twice.
C35_BoundedOrderAttempts ==
    last.op \in {"buy", "sell"} =>
        /\ Len(Creations("create_market_order")) <= 2
        /\ Len(Submissions({"FAK", "FOK"})) <= 2
        /\ Len(Creations("create_order")) <= (IF last.op = "buy" THEN 1 ELSE MAX_SELL_RETRIES)
        /\ Len(Submissions({"GTC"})) <= (IF last.op = "buy" THEN 1 ELSE MAX_SELL_RETRIES)
        /\ \A i \in 1..Len(last.calls) : last.calls[i].invoked <= 2

\* a sell whose two immediate attempts and all MAX_SELL_RETRIES resting-limit
\* attempts were made and failed
C35_Witness ==
    /\ last.op = "sell"
    /\ ~last.result.success
    /\ Len(Creations("create_market_order")) = 2
    /\ Len(Creations("create_order")) = MAX_SELL_RETRIES
    /\ Len(Submissions({"GTC"})) = MAX_SELL_RETRIES

\* C36: the resting-limit fallback of a sell is made only when the best bid
\* is above 0.01; its first attempt is priced at the best bid and each
\* further attempt one GTC_FALLBACK_DISCOUNT below the attempt before it,
\* never below 0.01, for at most MAX_SELL_RETRIES attempts.
C36_FallbackPriceSteps ==
    last.op = "sell" =>
        /\ Len(Creations("create_order")) <= MAX_SELL_RETRIES
        /\ Creations("create_order") # <<>> =>
              /\ last.env.quote > PriceFloor
              /\ Creations("create_order")[1].price = last.env.quote
        /\ \A i \in 2..Len(Creations("create_order")) :
              Creations("create_order")[i].price
                  = Max2(PriceFloor, Creations("create_order")[i - 1].price - GTC_FALLBACK_DISCOUNT)

\* C37: the filled_size a successful sell reports is never above the
\* quantity the exchange reported as matched for the order that succeeded
\* (zero when the response carries no matched size).
C37_FilledNotAboveMatched ==
    (last.op = "sell" /\ last.result.success)
    => last.result.filled_size
          <= RespFilled(SellPlan(last.env)[FirstSuccess(SellPlan(last.env))].o.resp)

\* ids that were given to an alert which remove_alert has deleted since
RemovedIds == (1..(next_alert_id - 1)) \ DOMAIN alerts_db

\* C38: once remove_alert(id) has completed, no tick marks that alert
\* triggered, sends a notice for it or issues a sell call for it, however soon
\* after the removal the tick arrives.
C38_RemovedAlertNeverFires ==
    [][\A id \in RemovedIds :
          /\ mark_calls'[id] = mark_calls[id]
          /\ \A c \in Appended(sell_calls, sell_calls') : c.alert # id
          /\ \A n \in Appended(notices, notices') : n.alert # id]_vars

\* C39: a session's signing handle is made from the secret of the credential
\* record currently stored for its user: after register_user has replaced
\* the record, no session made from the replaced secret is left.
C39_SessionSignsWithStoredSecret ==
    \A u \in DOMAIN sessions \cap DOMAIN users_db :
        ~truth[u].corrupted => sessions[u].clob_client.key = truth[u].secret

\* ------------------------------------------------------------------------
\* Trading mode: which clients route their orders to the simulated account
\* ------------------------------------------------------------------------

\* PolymarketClient.__init__: in paper mode no trading client is created;
\* in live mode one is (the operator's key being configured)
SharedClient(trading_mode) ==
    [is_paper |-> trading_mode = "paper", has_clob |-> trading_mode # "paper"]

\* get_user_client: the shared client's fields with the session's trading
\* client and is_paper = False
UserClient(shared, clob_client) ==
    [shared EXCEPT !.is_paper = FALSE, !.has_clob = clob_client.live]

\* "if self.is_paper or not self.clob_client" of buy_market and sell_market
IsPaperClient(client) == client.is_paper \/ ~client.has_clob

\* buy_market on the shared client
SharedBuy(trading_mode, amount_usd, quoted, env) ==
    IF IsPaperClient(SharedClient(trading_mode))
    THEN PaperBuyOp("X", amount_usd, quoted)
    ELSE Buy(amount_usd, DEFAULT_SLIPPAGE, env)

\* sell_market on the shared client
SharedSell(trading_mode, shares, percent, env) ==
    IF IsPaperClient(SharedClient(trading_mode))
    THEN PaperSellOp("X", shares, percent)
    ELSE Sell(shares, percent, env)

\* a user command: require_auth, then buy_market on the user's client
UserBuy(trading_mode, u, amount_usd, quoted, env) ==
    IF \E uc \in {GetUserClient(sessions, u, now)} :
          uc.found /\ IsPaperClient(UserClient(SharedClient(trading_mode), uc.clob_client))
    THEN PaperBuyOp("X", amount_usd, quoted)
    ELSE UserBuyBegin(u, amount_usd, env)

\* the bot run with TRADING_MODE=paper: one user connects a wallet and
\* unlocks it; orders are made on the shared client and on the user's client
NextPaperMode ==
    \/ \E nonce \in Nonces :
           RegisterUser(1, KeyOf(1), TraderPassword, <<>>, [i \in 1..SaltLen |-> 0], nonce)
    \/ UnlockBegin(1, TraderPassword)
    \/ UnlockFetch(1)
    \/ UnlockFinish(1, TRUE)
    \/ \E a \in BuyAmounts, q \in PaperQuotes : SharedBuy("paper", a, q, QuietEnv)
    \/ \E n \in {0, 500} : SharedSell("paper", Some(n), 100, QuietEnv)
    \/ \E env \in HandleEnvs : UserBuy("paper", 1, 10, 50, env)
    \/ UserBuyResume(1)

SpecPaperMode == Init /\ [][NextPaperMode]_vars

\* the calls of a log that create or submit an order on the exchange
OrderSubmissions(calls) ==
    {i \in DOMAIN calls : calls[i].method \in {"post_order", "create_order", "create_market_order"}}

\* C40: with the trading mode set to paper no buy or sell, on the shared
\* client or on a user's client, creates or submits an order on the exchange.
C40_PaperModeSubmitsNothing ==
    ("calls" \in DOMAIN last) => OrderSubmissions(last.calls) = {}

====
